---- MODULE Spec2Model ----
(***************************************************************************)
(* Model of the rolling-metrics engine and composite scorer of app.py.     *)
(*                                                                         *)
(* app.py is a Streamlit script executed top to bottom.  It defines        *)
(* calculate_monthly_returns, calculate_rolling_annual_return,             *)
(* calculate_rolling_volatility, calculate_rolling_sharpe and              *)
(* calculate_time_series_metrics twice (lines 258-477 and 754-980); the    *)
(* analysis handler (line 1042 onward) runs after both groups of `def`     *)
(* statements, so the names are bound to the later definitions then.       *)
(*                                                                         *)
(* float64 cells are modelled as tagged values: a finite number in         *)
(* fixed point (an integer count of 1/Scale), NaN (pandas' absent cell),   *)
(* +inf or -inf.  Arithmetic follows IEEE-754 for the special values and   *)
(* rounds finite results down to the fixed-point grid.                     *)
(***************************************************************************)
EXTENDS Integers, Sequences, FiniteSets, TLC

\* ------------------------------------------------------------------ bounds
Scale == 1000
MaxCells == 6
MaxWindow == 3

\* the `groups` argument: the selected group names, in registry order
Selections == {<<"A">>, <<"B">>, <<"A", "B">>}
Names(groups) == {groups[k] : k \in 1..Len(groups)}

\* ------------------------------------------------------- float64 values
NaN == [k |-> "nan", v |-> 0]
Num(x) == [k |-> "num", v |-> x]

IsNaN(a) == a.k = "nan"
IsNum(a) == a.k = "num"
IsInf(a) == a.k = "inf"

Sign(x) == IF x > 0 THEN 1 ELSE IF x < 0 THEN -1 ELSE 0
Inf(s) == [k |-> "inf", v |-> s]

FNeg(a) == IF IsNaN(a) THEN NaN ELSE [k |-> a.k, v |-> -a.v]

FAdd(a, b) ==
    IF IsNaN(a) \/ IsNaN(b) THEN NaN
    ELSE IF IsNum(a) /\ IsNum(b) THEN Num(a.v + b.v)
    ELSE IF IsInf(a) /\ IsInf(b) THEN (IF a.v = b.v THEN a ELSE NaN)
    ELSE IF IsInf(a) THEN a ELSE b

FSub(a, b) == FAdd(a, FNeg(b))

\* a * (n/d) for a literal factor n/d: 100, 0.75, 0.7, 0.5, 0.3, 0.2
FScale(a, n, d) ==
    IF IsNaN(a) THEN NaN
    ELSE IF IsInf(a) THEN Inf(a.v * Sign(n))
    ELSE Num((a.v * n) \div d)

\* IEEE division: x/0 is +-inf, 0/0 and inf/inf are NaN, x/inf is 0
FDiv(a, b) ==
    IF IsNaN(a) \/ IsNaN(b) THEN NaN
    ELSE IF IsInf(a) /\ IsInf(b) THEN NaN
    ELSE IF IsInf(a) THEN Inf(a.v * (IF b.v < 0 THEN -1 ELSE 1))
    ELSE IF IsInf(b) THEN Num(0)
    ELSE IF b.v = 0 THEN (IF a.v = 0 THEN NaN ELSE Inf(Sign(a.v)))
    ELSE Num((a.v * Scale) \div b.v)

\* a < b on float64; any comparison with NaN is false
FLt(a, b) ==
    /\ ~IsNaN(a)
    /\ ~IsNaN(b)
    /\ IF IsNum(a) /\ IsNum(b) THEN a.v < b.v
       ELSE IF IsInf(a) /\ IsInf(b) THEN a.v < b.v
       ELSE IF IsInf(a) THEN a.v < 0
       ELSE b.v > 0

FGt(a, b) == FLt(b, a)

\* floor of the square root, by bisection on [lo, hi]
RECURSIVE ISqrtIter(_, _, _)
ISqrtIter(lo, hi, x) ==
    IF lo >= hi THEN lo
    ELSE LET mid == (lo + hi + 1) \div 2
         IN IF mid * mid <= x THEN ISqrtIter(mid, hi, x)
                             ELSE ISqrtIter(lo, mid - 1, x)

\* 46340 is the largest root whose square fits a 32-bit integer
ISqrt(x) == ISqrtIter(0, IF x < 46340 THEN x ELSE 46340, x)

\* ----------------------------------------------------- sequences of cells
RECURSIVE DropNa(_)
DropNa(s) ==
    IF s = <<>> THEN <<>>
    ELSE IF IsNaN(Head(s)) THEN DropNa(Tail(s))
    ELSE <<Head(s)>> \o DropNa(Tail(s))

\* np.prod(1 + x) over the non-absent cells of a window x, left to right
RECURSIVE ProdOnePlus(_)
ProdOnePlus(s) ==
    IF s = <<>> THEN Scale
    ELSE ((Scale + Head(s).v) * ProdOnePlus(Tail(s))) \div Scale

RECURSIVE SumV(_)
SumV(s) == IF s = <<>> THEN 0 ELSE Head(s).v + SumV(Tail(s))

RECURSIVE SumSq(_)
SumSq(s) == IF s = <<>> THEN 0 ELSE Head(s).v * Head(s).v + SumSq(Tail(s))

\* Series.min() / Series.max() over a sequence of cells: skip NaN, NaN when
\* nothing is left
Present(s) == {s[k] : k \in 1..Len(s)} \ {NaN}

FMinSeq(s) ==
    IF Present(s) = {} THEN NaN
    ELSE CHOOSE x \in Present(s) : \A y \in Present(s) : ~FLt(y, x)

FMaxSeq(s) ==
    IF Present(s) = {} THEN NaN
    ELSE CHOOSE x \in Present(s) : \A y \in Present(s) : ~FGt(y, x)

\* ------------------------------------------------------------- matrices
\* a matrix is a sequence of rows (periods, ascending); a row maps each
\* group name to a cell
\* cells lo..hi of column g, top to bottom
RECURSIVE Cells(_, _, _, _)
Cells(m, g, lo, hi) ==
    IF lo > hi THEN <<>> ELSE <<m[lo][g]>> \o Cells(m, g, lo + 1, hi)

Column(m, g) == Cells(m, g, 1, Len(m))

\* DataFrame.columns
Cols(m) == IF Len(m) = 0 THEN {} ELSE DOMAIN m[1]

Max2(a, b) == IF a > b THEN a ELSE b

\* the trailing window of column g ending at row i: rows max(1, i-W+1)..i
TrailingWindow(m, g, i, W) == Cells(m, g, Max2(1, i - W + 1), i)

\* (1 + monthly_returns) as a matrix
OnePlus(m) ==
    [i \in 1..Len(m) |->
        [g \in Cols(m) |-> FAdd(Num(Scale), m[i][g])]]

MatrixMinus1(m) ==
    [i \in 1..Len(m) |->
        [g \in Cols(m) |-> FSub(m[i][g], Num(Scale))]]

\* lambda x: np.prod(1+x)
ProdLambda(win) == Num(ProdOnePlus(DropNa(win)))

\* Rolling.std() (ddof=1) * np.sqrt(12) on one window
StdSqrt12(win) ==
    LET x == DropNa(win)
        n == Len(x)
    IN IF n < 2 THEN NaN
       ELSE Num(ISqrt((12 * (n * SumSq(x) - SumV(x) * SumV(x)))
                          \div (n * (n - 1))))

\* DataFrame.rolling(window=W, min_periods=mp).apply(lambda x: np.prod(1+x)):
\* the lambda over the window when it holds at least mp non-absent cells,
\* otherwise absent
RollingApplyProd(m, W, mp) ==
    [i \in 1..Len(m) |->
        [g \in Cols(m) |->
            IF Len(DropNa(TrailingWindow(m, g, i, W))) >= mp
            THEN ProdLambda(TrailingWindow(m, g, i, W))
            ELSE NaN]]

\* DataFrame.rolling(window=W, min_periods=mp).std() * np.sqrt(12)
RollingStdSqrt12(m, W, mp) ==
    [i \in 1..Len(m) |->
        [g \in Cols(m) |->
            IF Len(DropNa(TrailingWindow(m, g, i, W))) >= mp
            THEN StdSqrt12(TrailingWindow(m, g, i, W))
            ELSE NaN]]

\* ------------------------------------------- the rolling-metric functions
\* risk_free_rate=0.02, the default of calculate_rolling_sharpe
RiskFreeRate == (2 * Scale) \div 100

\* first definition: rolling(window, min_periods=1).apply(np.prod(1+x)) - 1
calculate_rolling_annual_return_first(mr, W) ==
    MatrixMinus1(RollingApplyProd(OnePlus(mr), W, 1))

\* second definition: rolling(window).apply(...) - 1; min_periods defaults
\* to the window size
calculate_rolling_annual_return_second(mr, W) ==
    MatrixMinus1(RollingApplyProd(OnePlus(mr), W, W))

\* first definition: rolling(window, min_periods=2).std() * sqrt(12)
calculate_rolling_volatility_first(mr, W) == RollingStdSqrt12(mr, W, 2)

\* second definition: rolling(window).std() * sqrt(12)
calculate_rolling_volatility_second(mr, W) == RollingStdSqrt12(mr, W, W)

\* first definition: np.where(vol == 0, nan, (annual - rf) / vol)
calculate_rolling_sharpe_first(ra, rv) ==
    [i \in 1..Len(ra) |->
        [g \in Cols(ra) |->
            IF rv[i][g] = Num(0) THEN NaN
            ELSE FDiv(FSub(ra[i][g], Num(RiskFreeRate)), rv[i][g])]]

\* second definition: (annual - rf) / vol, plain elementwise division
calculate_rolling_sharpe_second(ra, rv) ==
    [i \in 1..Len(ra) |->
        [g \in Cols(ra) |->
            FDiv(FSub(ra[i][g], Num(RiskFreeRate)), rv[i][g])]]

\* a call through the module-level name: the definition bound to it now
calculate_rolling_annual_return(b, mr, W) ==
    IF b = "first" THEN calculate_rolling_annual_return_first(mr, W)
    ELSE calculate_rolling_annual_return_second(mr, W)

calculate_rolling_volatility(b, mr, W) ==
    IF b = "first" THEN calculate_rolling_volatility_first(mr, W)
    ELSE calculate_rolling_volatility_second(mr, W)

calculate_rolling_sharpe(b, mr, W) ==
    LET ra == calculate_rolling_annual_return(b, mr, W)
        rv == calculate_rolling_volatility(b, mr, W)
    IN IF b = "first" THEN calculate_rolling_sharpe_first(ra, rv)
       ELSE calculate_rolling_sharpe_second(ra, rv)

\* ------------------------------------------------- single-metric requests
\* what a metric function hands back: a DataFrame or None
NoneResult == [kind |-> "None", frame |-> <<>>]
FrameResult(m) == [kind |-> "frame", frame |-> m]

\* DataFrame.rolling(window=W) raises ValueError for a negative window; a
\* window of 0 is accepted
RollingRaises(W) == W < 0

\* rolling(window=W, min_periods=mp) of the first definitions raises
\* ValueError also when min_periods is greater than the window
RollingRaisesFirst(W, mp) == W < 0 \/ mp > W

\* the return value of each rolling function: the except clause of its try
\* block turns the ValueError into None
rolling_annual_return_result(b, mr, W) ==
    IF (b = "first" /\ RollingRaisesFirst(W, 1))
           \/ (b # "first" /\ RollingRaises(W))
    THEN NoneResult
    ELSE FrameResult(calculate_rolling_annual_return(b, mr, W))

rolling_volatility_result(b, mr, W) ==
    IF (b = "first" /\ RollingRaisesFirst(W, 2))
           \/ (b # "first" /\ RollingRaises(W))
    THEN NoneResult
    ELSE FrameResult(calculate_rolling_volatility(b, mr, W))

\* None when either of the two calls it makes returned None
rolling_sharpe_result(b, mr, W) ==
    IF rolling_annual_return_result(b, mr, W) = NoneResult
           \/ rolling_volatility_result(b, mr, W) = NoneResult
    THEN NoneResult
    ELSE FrameResult(calculate_rolling_sharpe(b, mr, W))

\* mutant of single_metric: an unknown kind falls through to the Sharpe
\* ratio
single_metric_UnknownAsSharpe(b, metric, mr, W) ==
    IF metric = "monthly_return" THEN FrameResult(mr)
    ELSE IF metric = "annual_return"
    THEN rolling_annual_return_result(b, mr, W)
    ELSE IF metric = "volatility" THEN rolling_volatility_result(b, mr, W)
    ELSE rolling_sharpe_result(b, mr, W)

\* calculate_time_series_metrics with a metric given: the if/elif chain
single_metric(b, metric, mr, W) ==
    IF metric = "monthly_return" THEN FrameResult(mr)
    ELSE IF metric = "annual_return"
    THEN rolling_annual_return_result(b, mr, W)
    ELSE IF metric = "volatility" THEN rolling_volatility_result(b, mr, W)
    ELSE IF metric = "sharpe" THEN rolling_sharpe_result(b, mr, W)
    ELSE NoneResult

\* ------------------------------------------------------ composite scorer
\* mutant of HistMin: the minimum over every group's column, not the group's
HistMin_AllGroups(m, g) ==
    LET vals == {m[i][h] : i \in 1..Len(m), h \in Cols(m)} \ {NaN}
    IN IF vals = {} THEN NaN
       ELSE CHOOSE x \in vals : \A y \in vals : ~FLt(y, x)

\* hist_*_min / hist_*_max: Series.min()/max() of the group's own column
HistMin(m, g) == FMinSeq(Column(m, g))
HistMax(m, g) == FMaxSeq(Column(m, g))

\* the six hist_* locals of the scoring loop, per group
Hist(ra, rv, rs) ==
    [g \in Cols(ra) |->
        [annual_min |-> HistMin(ra, g), annual_max |-> HistMax(ra, g),
         vol_min |-> HistMin(rv, g), vol_max |-> HistMax(rv, g),
         sharpe_min |-> HistMin(rs, g), sharpe_max |-> HistMax(rs, g)]]

\* `group in annual_values.index and group in vol_values.index and
\*  group in sharpe_values.index` after the three dropna()
CellScored(ra, rv, rs, i, g) ==
    ~IsNaN(ra[i][g]) /\ ~IsNaN(rv[i][g]) /\ ~IsNaN(rs[i][g])

\* mutant of AnnualScore: the inverted normalisation of vol_score is used
AnnualScore_Inverted(x, lo, hi) ==
    IF FGt(hi, lo)
    THEN FScale(FSub(Num(Scale), FDiv(FSub(x, lo), FSub(hi, lo))), 100, 1)
    ELSE Num(0)

\* annual_score of a cell with rolling return x
AnnualScore(x, lo, hi) ==
    IF FGt(hi, lo)
    THEN FDiv(FScale(FSub(x, lo), 100, 1), FSub(hi, lo))
    ELSE Num(0)

\* mutant of VolPenalised: the threshold is taken from hist_vol_max
VolPenalised_AboveMax(x, lo, hi) ==
    FGt(x, FAdd(hi, FScale(FSub(hi, lo), 75, 100)))

\* vol_values[group] > hist_vol_min + 0.75 * (hist_vol_max - hist_vol_min)
VolPenalised(x, lo, hi) == FGt(x, FAdd(lo, FScale(FSub(hi, lo), 75, 100)))

\* vol_score of a cell with rolling volatility x
VolScore(x, lo, hi) ==
    LET base == FScale(FSub(Num(Scale), FDiv(FSub(x, lo), FSub(hi, lo))),
                       100, 1)
    IN IF FGt(hi, lo)
       THEN (IF VolPenalised(x, lo, hi) THEN FScale(base, 7, 10) ELSE base)
       ELSE Num(0)

\* sharpe_score of a cell with rolling Sharpe x
SharpeScore(x, lo, hi) ==
    LET base == FDiv(FScale(FSub(x, lo), 100, 1), FSub(hi, lo))
    IN IF FGt(hi, lo)
       THEN (IF FLt(x, Num(0)) THEN FScale(base, 5, 10) ELSE base)
       ELSE Num(0)

\* mutant of WeightedSum: weights 0.3, 0.3, 0.5 that sum to more than 1
WeightedSum_WeightsOverOne(a, v, s) ==
    FAdd(FAdd(FScale(a, 3, 10), FScale(v, 3, 10)), FScale(s, 5, 10))

\* 0.3 * annual_score + 0.2 * vol_score + 0.5 * sharpe_score
WeightedSum(a, v, s) ==
    FAdd(FAdd(FScale(a, 3, 10), FScale(v, 2, 10)), FScale(s, 5, 10))

\* the cells for which the loop enters the try block
TriedCells(ra, rv, rs) ==
    {c \in (1..Len(ra)) \X Cols(ra) : CellScored(ra, rv, rs, c[1], c[2])}

\* the three sub-score locals of each pass of the scoring loop; a cell the
\* loop skips has scored = FALSE, and so has a cell of F, where the try
\* block raised and control went to the except clause (raised = TRUE)
SubScores(ra, rv, rs, h, F) ==
    [i \in 1..Len(ra) |->
        [g \in Cols(ra) |->
            IF <<i, g>> \in F
            THEN [scored |-> FALSE, raised |-> TRUE, annual_score |-> NaN,
                  vol_score |-> NaN, sharpe_score |-> NaN]
            ELSE IF CellScored(ra, rv, rs, i, g)
            THEN [scored |-> TRUE, raised |-> FALSE,
                  annual_score |->
                      AnnualScore(ra[i][g], h[g].annual_min, h[g].annual_max),
                  vol_score |->
                      VolScore(rv[i][g], h[g].vol_min, h[g].vol_max),
                  sharpe_score |->
                      SharpeScore(rs[i][g], h[g].sharpe_min, h[g].sharpe_max)]
            ELSE [scored |-> FALSE, raised |-> FALSE, annual_score |-> NaN,
                  vol_score |-> NaN, sharpe_score |-> NaN]]]

\* mutant of ScoresLoop: the try block encloses the loop over the groups, so
\* one raising cell zeroes its whole period
ScoresLoop_RaiseZeroesPeriod(sub) ==
    [i \in 1..Len(sub) |->
        [g \in Cols(sub) |->
            IF \E h \in Cols(sub) : sub[i][h].raised THEN Num(0)
            ELSE IF sub[i][g].scored
            THEN WeightedSum(sub[i][g].annual_score, sub[i][g].vol_score,
                             sub[i][g].sharpe_score)
            ELSE NaN]]

\* the cells of `scores` when the loop ends: the weighted sum, 0 where the
\* except clause ran, NaN where the cell was skipped
ScoresLoop(sub) ==
    [i \in 1..Len(sub) |->
        [g \in Cols(sub) |->
            IF sub[i][g].raised THEN Num(0)
            ELSE IF sub[i][g].scored
            THEN WeightedSum(sub[i][g].annual_score, sub[i][g].vol_score,
                             sub[i][g].sharpe_score)
            ELSE NaN]]

\* mutant of AllAvailable: only the aggregated returns are tested
AllAvailable_MonthlyOnly(mr, ra, rv, rs) == mr.kind # "None"

\* lines 912-913: monthly_returns, rolling_annual, rolling_vol and
\* rolling_sharpe are all not None
AllAvailable(mr, ra, rv, rs) ==
    /\ mr.kind # "None"
    /\ ra.kind # "None"
    /\ rv.kind # "None"
    /\ rs.kind # "None"

\* lines 897-900: a rolling function called by the scorer returns None when
\* calculate_monthly_returns returned None (lines 800-801, 826-827) or when
\* rolling raised, and rolling_sharpe None when either input is None
RollingOrNone(mr, frame, W) ==
    IF mr.kind = "None" \/ RollingRaises(W) THEN NoneResult
    ELSE FrameResult(frame)

\* the keys of `result` whose value is None when the function returns
NoneKeys(mr, ra, rv, rs, total) ==
    {k \in {"monthly_returns"} : mr.kind = "None"}
    \cup {k \in {"rolling_annual"} : ra.kind = "None"}
    \cup {k \in {"rolling_vol"} : rv.kind = "None"}
    \cup {k \in {"rolling_sharpe"} : rs.kind = "None"}
    \cup {k \in {"total_scores"} : total.kind = "None"}

\* the keys of the `result` dict the function returns
ResultKeys ==
    {"monthly_returns", "rolling_annual", "rolling_vol", "rolling_sharpe",
     "total_scores"}

\* mutant of FillNa0: the fillna step is left out
FillNa0_Skipped(m) == m

\* scores.fillna(0)
FillNa0(m) ==
    [i \in 1..Len(m) |->
        [g \in Cols(m) |-> IF IsNaN(m[i][g]) THEN Num(0) ELSE m[i][g]]]

\* lines 912-971: result['total_scores'], None unless every input is there
TotalScores(mr, ra, rv, rs) ==
    IF AllAvailable(mr, ra, rv, rs)
    THEN FrameResult(FillNa0(ScoresLoop(
             SubScores(ra.frame, rv.frame, rs.frame,
                       Hist(ra.frame, rv.frame, rs.frame), {}))))
    ELSE NoneResult

\* ------------------------------------------------------ date-range filter
\* The cells of the trade_date column.  A cell is an integer of an int64
\* column (a = the number, read as YYYYMMDD), a text of an object column
\* (a-b-c = the year, month and day it spells), a Timestamp of a datetime64
\* column (a = days since 1970-01-01, b = time of day in half days) or NaT.
IntCell(n) == [repr |-> "int", a |-> n, b |-> 0, c |-> 0]
TextCell(y, m, d) == [repr |-> "text", a |-> y, b |-> m, c |-> d]
Timestamp(day, tick) == [repr |-> "ts", a |-> day, b |-> tick, c |-> 0]
NaT == [repr |-> "nat", a |-> 0, b |-> 0, c |-> 0]

IsLeap(y) == (y % 4 = 0 /\ y % 100 # 0) \/ y % 400 = 0

DaysInMonth(y, m) ==
    IF m = 2 THEN (IF IsLeap(y) THEN 29 ELSE 28)
    ELSE IF m \in {4, 6, 9, 11} THEN 30 ELSE 31

\* year-month-day names a day of the calendar
ValidYmd(y, m, d) == m \in 1..12 /\ d >= 1 /\ d <= DaysInMonth(y, m)

\* days from 1970-01-01 to the civil date y-m-d
DaysFromCivil(y, m, d) ==
    LET yy == IF m <= 2 THEN y - 1 ELSE y
        era == yy \div 400
        yoe == yy - era * 400
        mp == IF m > 2 THEN m - 3 ELSE m + 9
        doy == (153 * mp + 2) \div 5 + d - 1
        doe == yoe * 365 + yoe \div 4 - yoe \div 100 + doy
    IN era * 146097 + doe - 719468

\* pd.to_datetime(..., errors='coerce') on one cell: format='%Y%m%d' for an
\* integer, the date a text spells; NaT when it names no day
ToDatetime(cell) ==
    LET y == IF cell.repr = "int" THEN cell.a \div 10000 ELSE cell.a
        m == IF cell.repr = "int" THEN (cell.a \div 100) % 100 ELSE cell.b
        d == IF cell.repr = "int" THEN cell.a % 100 ELSE cell.c
    IN IF cell.repr \in {"ts", "nat"} THEN cell
       ELSE IF ValidYmd(y, m, d) THEN Timestamp(DaysFromCivil(y, m, d), 0)
       ELSE NaT

\* Series.dt.date of one Timestamp: the day, the time of day dropped
DtDate(cell) == cell.a

\* the start_date / end_date arguments: None, a datetime.date, a Timestamp
\* with a time of day, or a text pd.to_datetime cannot parse
NoneDate == [kind |-> "none", day |-> 0, tick |-> 0]
DateArg(day) == [kind |-> "date", day |-> day, tick |-> 0]
TimestampArg(day, tick) == [kind |-> "ts", day |-> day, tick |-> tick]
BadDateArg == [kind |-> "text", day |-> 0, tick |-> 0]

\* pd.to_datetime(start_date) raises
ToDatetimeRaises(arg) == arg.kind = "text"

\* pd.to_datetime(start_date).normalize().date()
NormalizeDate(arg) == arg.day

\* a frame of observations: None, or rows with their position in the input
\* (id) and their trade_date cell; dtype is the dtype of the trade_date
\* column, "missing" when the frame has no such column
NoneFrame == [none |-> TRUE, dtype |-> "missing", rows |-> <<>>]
Frame(dtype, rows) == [none |-> FALSE, dtype |-> dtype, rows |-> rows]

RECURSIVE SelectRows(_, _, _)
\* data[(dt.date >= lo) & (dt.date <= hi)]: the rows in range, in order
SelectRows(rows, lo, hi) ==
    IF rows = <<>> THEN <<>>
    ELSE LET r == Head(rows)
             rest == SelectRows(Tail(rows), lo, hi)
         IN IF DtDate(r.trade_date) >= lo /\ DtDate(r.trade_date) <= hi
            THEN <<r>> \o rest ELSE rest

RECURSIVE DropNaT(_)
\* data.dropna(subset=['trade_date'])
DropNaT(rows) ==
    IF rows = <<>> THEN <<>>
    ELSE IF Head(rows).trade_date = NaT THEN DropNaT(Tail(rows))
    ELSE <<Head(rows)>> \o DropNaT(Tail(rows))

\* lines 213-224: `data` after the trade_date column is made datetime64 and
\* the rows whose date is invalid are removed
ConvertTradeDate(data) ==
    IF data.dtype = "datetime64" THEN data
    ELSE Frame("datetime64",
               DropNaT([k \in 1..Len(data.rows) |->
                           [id |-> data.rows[k].id,
                            trade_date |->
                                ToDatetime(data.rows[k].trade_date)]]))

\* mutant of InRange: the end bound is exclusive
InRange_EndExclusive(conv, start_date, end_date) ==
    SelectRows(conv.rows, NormalizeDate(start_date),
               NormalizeDate(end_date) - 1)

\* lines 235-236: the rows of the converted frame within [start, end]
InRange(conv, start_date, end_date) ==
    SelectRows(conv.rows, NormalizeDate(start_date), NormalizeDate(end_date))

\* lines 241-250: the selection, or `data` when the selection is empty
FilteredOrData(conv, sel) ==
    IF Len(sel) = 0 THEN conv ELSE [conv EXCEPT !.rows = sel]

\* the return value of filter_data_by_time(data, start_date, end_date)
filter_data_by_time(data, start_date, end_date) ==
    IF data.none \/ Len(data.rows) = 0 THEN data
    ELSE IF start_date = NoneDate \/ end_date = NoneDate THEN data
    ELSE IF data.dtype = "missing" THEN data
    ELSE IF ToDatetimeRaises(start_date) \/ ToDatetimeRaises(end_date)
    THEN ConvertTradeDate(data)
    ELSE FilteredOrData(ConvertTradeDate(data),
                        InRange(ConvertTradeDate(data), start_date, end_date))

\* lines 216 and 218: `data['trade_date'] = pd.to_datetime(...)` assigns the
\* column of the frame the caller passed; line 224 rebinds only the local
\* name, so the caller's frame keeps the rows whose date became NaT
AssignTradeDate(data) ==
    IF data.dtype = "datetime64" THEN data
    ELSE Frame("datetime64",
               [k \in 1..Len(data.rows) |->
                   [id |-> data.rows[k].id,
                    trade_date |-> ToDatetime(data.rows[k].trade_date)]])

\* the caller's frame once filter_data_by_time(data, start_date, end_date)
\* has returned
data_after_filter(data, start_date, end_date) ==
    IF data.none \/ Len(data.rows) = 0 THEN data
    ELSE IF start_date = NoneDate \/ end_date = NoneDate THEN data
    ELSE IF data.dtype = "missing" THEN data
    ELSE AssignTradeDate(data)

\* ------------------------------------------------------- load_group_data
\* A group's file group_<id>_data.csv: missing (os.path.exists is false),
\* unreadable (pd.read_csv or a later statement of the inner try raises), or
\* a table.  has_return says whether the table has a monthly_return column,
\* dtype is the dtype read_csv gives its trade_date column ("missing" when
\* the table has none); each row has its trade_date cell and its return.
MissingFile ==
    [status |-> "missing", has_return |-> FALSE, dtype |-> "missing",
     rows |-> <<>>]
UnreadableFile ==
    [status |-> "unreadable", has_return |-> FALSE, dtype |-> "missing",
     rows |-> <<>>]
TableFile(has_return, dtype, rows) ==
    [status |-> "ok", has_return |-> has_return, dtype |-> dtype,
     rows |-> rows]

\* max_allowed_date = pd.Timestamp('2025-12-31')
max_allowed_date == DaysFromCivil(2025, 12, 31)

\* lines 104-109: the monthly_return of row k, 0.0 when the table has no
\* such column
RequiredColumn(file, k) ==
    IF file.has_return THEN file.rows[k].monthly_return ELSE Num(0)

\* lines 98-109: df after the group columns and the required column are set
ReadGroup(group_id, file) ==
    [k \in 1..Len(file.rows) |->
        [group_id |-> group_id, id |-> k,
         trade_date |-> file.rows[k].trade_date,
         monthly_return |-> RequiredColumn(file, k)]]

RECURSIVE NotAfter(_, _)
\* df[df['trade_date'] <= max_allowed_date]; NaT compares false
NotAfter(rows, day) ==
    IF rows = <<>> THEN <<>>
    ELSE IF Head(rows).trade_date # NaT /\ Head(rows).trade_date.a <= day
    THEN <<Head(rows)>> \o NotAfter(Tail(rows), day)
    ELSE NotAfter(Tail(rows), day)

\* lines 111-143: df after the trade_date column is converted, the rows
\* whose date is NaT are removed and the rows after max_allowed_date are
\* removed; a table without a trade_date column keeps every row
ValidDates(file, df) ==
    IF file.dtype = "missing" THEN df
    ELSE NotAfter(DropNaT([k \in 1..Len(df) |->
                              [df[k] EXCEPT !.trade_date = ToDatetime(@)]]),
                  max_allowed_date)

\* lines 83-91 and 147-154: pd.DataFrame({...}) is given two empty Series
\* and three lists of length 1; pandas raises ValueError (array length 1
\* does not match index length 0), in the loop body for a missing file and
\* inside the inner except clause for an unreadable one
EmptyFrameRaises(file) == file.status \in {"missing", "unreadable"}

RECURSIVE ConcatGroups(_, _)
\* lines 157-165: pd.concat of the non-empty frames, groups in loop order
ConcatGroups(files, group_id) ==
    IF group_id > Len(files) THEN <<>>
    ELSE ValidDates(files[group_id], ReadGroup(group_id, files[group_id]))
             \o ConcatGroups(files, group_id + 1)

\* what load_group_data returns and whether its outer except clause ran
NoData(info, failed) ==
    [none |-> TRUE, rows |-> <<>>, group_info |-> info, failed |-> failed]
CombinedData(rows) ==
    [none |-> FALSE, rows |-> rows, group_info |-> TRUE, failed |-> FALSE]

\* load_group_data(): (None, None) from the outer except clause when
\* building an empty frame raised, (None, group_info) when no frame has a
\* row, (combined_data, group_info) otherwise
load_group_data(files) ==
    IF \E g \in 1..Len(files) : EmptyFrameRaises(files[g])
    THEN NoData(FALSE, TRUE)
    ELSE IF ConcatGroups(files, 1) = <<>> THEN NoData(TRUE, FALSE)
    ELSE CombinedData(ConcatGroups(files, 1))

\* ------------------------------------------------------------- main.py
\* the names visualization.py defines at module level
VisualizationNames ==
    {"load_group_data_from_files", "analyze_scale_effect",
     "create_size_distribution_chart", "create_return_comparison_chart",
     "create_volatility_comparison_chart", "create_sharpe_ratio_chart",
     "create_cumulative_return_chart", "create_time_series_chart",
     "create_monthly_return_time_series",
     "create_annualized_return_time_series",
     "create_volatility_time_series", "create_sharpe_ratio_time_series",
     "create_comprehensive_analysis_chart", "run_visualization_pipeline",
     "main"}

\* main.py line 13: from visualization import visualize_scale_effect
\* raises ImportError when the module defines no such name
ImportRaises == "visualize_scale_effect" \notin VisualizationNames

\* data_fetch.py lines 180-181: the parameters of fetch_stock_data, and
\* those without a default
FetchParameters ==
    {"stock_codes", "start_date", "end_date", "batch_size", "use_mock_data"}
FetchRequired == {"stock_codes"}

\* main.py lines 51-57: the keywords of the call
FetchCallKeywords ==
    {"start_date", "end_date", "max_stocks", "batch_size", "retry_times"}

\* the call raises TypeError: an unexpected keyword or a missing argument
FetchCallRaises ==
    \/ ~(FetchCallKeywords \subseteq FetchParameters)
    \/ ~(FetchRequired \subseteq FetchCallKeywords)

\* main.py line 74: not grouped_data or all(df.empty for df in values)
NoGroupHasData(grouped) ==
    \A g \in DOMAIN grouped : grouped[g] # "data"

\* main.py lines 48-104: the stages main() starts, in order.  An exception
\* of a stage is caught by lines 98-104 and ends the run.
main_stages(fetched_data, grouped, vizraises) ==
    IF FetchCallRaises \/ fetched_data # "data" THEN <<"fetch">>
    ELSE IF NoGroupHasData(grouped) THEN <<"fetch", "process">>
    ELSE <<"fetch", "process", "visualise">>

\* ------------------------------------------ run_visualization_pipeline
\* lines 660-669: the ten create_* calls of the `charts` list, in order
ChartCalls ==
    <<"create_size_distribution_chart", "create_return_comparison_chart",
      "create_volatility_comparison_chart", "create_sharpe_ratio_chart",
      "create_cumulative_return_chart",
      "create_comprehensive_analysis_chart",
      "create_monthly_return_time_series",
      "create_annualized_return_time_series",
      "create_volatility_time_series", "create_sharpe_ratio_time_series">>

\* the names run_visualization_pipeline can read: its locals (it has no
\* parameter) and the module's globals
PipelineNames ==
    {"group_data", "analysis_results", "monthly_returns", "charts",
     "success_count", "total_count"}
    \cup VisualizationNames
    \cup {"BASE_DIR", "LOG_DIR", "log_file", "logger", "DATA_DIR",
           "RESULTS_DIR", "os", "pd", "np", "plt", "sns", "logging",
           "datetime", "warnings"}

\* the names each call of the list reads besides its function
ChartArguments ==
    <<{"analysis_results"}, {"analysis_results"}, {"analysis_results"},
      {"analysis_results"}, {"analysis_results"}, {"analysis_results"},
      {"group_data"}, {"group_data", "rolling_window"},
      {"group_data", "rolling_window"}, {"group_data", "rolling_window"}>>

\* evaluating call k raises NameError
ChartCallRaises(k) == ~(ChartArguments[k] \subseteq PipelineNames)

\* the calls made before the list is complete or a call raises
ChartsAttempted ==
    IF \E k \in 1..10 : ChartCallRaises(k)
    THEN (CHOOSE k \in 1..10 :
             /\ ChartCallRaises(k)
             /\ \A j \in 1..(k - 1) : ~ChartCallRaises(j)) - 1
    ELSE 10

\* lines 60-77 of load_group_data_from_files: a file is loaded when it is
\* read and has the required columns; None when no file is loaded
GroupDataLoaded(files) == \E k \in 1..Len(files) : files[k] = "ok"

\* run_visualization_pipeline(): (False, None) when nothing was loaded
\* (line 644) or from the except clause (lines 680-682), else (True,
\* group_stats); a create_* call returning False changes only the count
run_visualization_pipeline(files) ==
    IF ~GroupDataLoaded(files)
    THEN [success |-> FALSE, group_stats |-> FALSE, attempted |-> 0]
    ELSE IF ChartsAttempted < 10
    THEN [success |-> FALSE, group_stats |-> FALSE,
          attempted |-> ChartsAttempted]
    ELSE [success |-> TRUE, group_stats |-> TRUE, attempted |-> 10]

\* ----------------------------------------------------- fetch_stock_data
Min2(a, b) == IF a < b THEN a ELSE b

\* mutant of BatchPositions: the slice is one entry short
BatchPositions_ShortSlice(i, size, n) ==
    [k \in 1..(Min2(i + size - 1, n) - i) |-> i + k]

\* line 202: stock_codes[i:i+batch_size], as 1-based list positions
BatchPositions(i, size, n) ==
    [k \in 1..(Min2(i + size, n) - i) |-> i + k]

\* lines 206-261 for the entries of one batch: the codes stored in
\* all_stock_data are those whose fetch returned a non-empty frame; an
\* empty frame is logged and an exception is caught by line 260
StoredCodes(codes, outcome, positions) ==
    {codes[positions[k]] :
        k \in {j \in 1..Len(positions) : outcome[positions[j]] = "data"}}

\* ------------------------------------------- group_stocks_by_market_cap
\* stock_data is the dict in insertion order: one entry per stock code with
\* whether its frame is empty and the last market_cap of the frame

RECURSIVE WithData(_)
\* lines 282-285: stock_market_caps, the stocks whose frame is not empty
WithData(stocks) ==
    IF stocks = <<>> THEN <<>>
    ELSE IF Head(stocks).empty THEN WithData(Tail(stocks))
    ELSE <<Head(stocks)>> \o WithData(Tail(stocks))

RECURSIVE InsertByCap(_, _)
\* x placed after every entry whose market cap is not greater
InsertByCap(x, s) ==
    IF s = <<>> THEN <<x>>
    ELSE IF s[Len(s)].market_cap <= x.market_cap THEN Append(s, x)
    ELSE Append(InsertByCap(x, SubSeq(s, 1, Len(s) - 1)), s[Len(s)])

RECURSIVE SortedByCap(_)
\* line 288: sorted(stock_market_caps.items(), key=lambda x: x[1]), a
\* stable sort
SortedByCap(s) ==
    IF s = <<>> THEN <<>>
    ELSE InsertByCap(s[Len(s)], SortedByCap(SubSeq(s, 1, Len(s) - 1)))

\* mutant of sorted_stocks: the stocks are left in insertion order
sorted_stocks_Unsorted(stocks) == WithData(stocks)

\* lines 282-288: the stocks with data, ascending by market cap
sorted_stocks(stocks) == SortedByCap(WithData(stocks))

\* lines 292, 297-307: the group of the stock at 0-based index i of n
GroupOfIndex(i, n) ==
    IF i < n \div 5 THEN 1
    ELSE IF i < 2 * (n \div 5) THEN 2
    ELSE IF i < 3 * (n \div 5) THEN 3
    ELSE IF i < 4 * (n \div 5) THEN 4
    ELSE 5

RECURSIVE GroupMembers(_, _, _)
\* groups[g] after the loop of lines 297-307 over the entries from index i
\* on: the stocks of group g in sorted order
GroupMembers(sorted, g, i) ==
    IF i > Len(sorted) THEN <<>>
    ELSE IF GroupOfIndex(i - 1, Len(sorted)) = g
    THEN <<sorted[i]>> \o GroupMembers(sorted, g, i + 1)
    ELSE GroupMembers(sorted, g, i + 1)

\* the `groups` dict group_stocks_by_market_cap returns
group_stocks_by_market_cap(stocks) ==
    [g \in 1..5 |-> GroupMembers(sorted_stocks(stocks), g, 1)]

\* ----------------------------------------------------- period aggregator
\* An observation is a row with its trade_date (days since 1970-01-01), its
\* group_name and its monthly_return cell.
\* the group names in ascending string order, the order sort_index gives
GroupNameOrder == <<"A", "B">>
NameRank(g) == CHOOSE k \in 1..Len(GroupNameOrder) : GroupNameOrder[k] = g

RECURSIVE IsIn(_, _)
\* data[data['group_name'].isin(groups)]
IsIn(rows, groups) ==
    IF rows = <<>> THEN <<>>
    ELSE IF Head(rows).group_name \in Names(groups)
    THEN <<Head(rows)>> \o IsIn(Tail(rows), groups)
    ELSE IsIn(Tail(rows), groups)

RECURSIVE CellReturns(_, _, _)
\* the monthly_return values of the rows of period p and group g, in row
\* order, without the absent ones
CellReturns(rows, p, g) ==
    IF rows = <<>> THEN <<>>
    ELSE IF /\ Head(rows).trade_date = p
            /\ Head(rows).group_name = g
            /\ ~IsNaN(Head(rows).monthly_return)
    THEN <<Head(rows).monthly_return>> \o CellReturns(Tail(rows), p, g)
    ELSE CellReturns(Tail(rows), p, g)

\* mutant of CellMean: aggfunc='sum'
CellMean_Sum(vals) == IF vals = <<>> THEN NaN ELSE Num(SumV(vals))

\* aggfunc='mean' on the values of one cell
CellMean(vals) ==
    IF vals = <<>> THEN NaN ELSE Num(SumV(vals) \div Len(vals))

RECURSIVE SortedDays(_)
SortedDays(S) ==
    IF S = {} THEN <<>>
    ELSE LET m == CHOOSE x \in S : \A y \in S : x <= y
         IN <<m>> \o SortedDays(S \ {m})

RECURSIVE SortedNames(_)
SortedNames(S) ==
    IF S = {} THEN <<>>
    ELSE LET m == CHOOSE x \in S : \A y \in S : NameRank(x) <= NameRank(y)
         IN <<m>> \o SortedNames(S \ {m})

RECURSIVE FirstSeen(_, _)
\* the distinct values of a sequence in the order of their first appearance
FirstSeen(s, seen) ==
    IF s = <<>> THEN <<>>
    ELSE IF Head(s) \in seen THEN FirstSeen(Tail(s), seen)
    ELSE <<Head(s)>> \o FirstSeen(Tail(s), seen \cup {Head(s)})

\* the rows that carry a return: a cell of absent returns only is dropped
\* by pivot_table (dropna=True)
WithReturn(rows) ==
    SelectSeq(rows, LAMBDA r : ~IsNaN(r.monthly_return))

\* mutant of PivotIndex: the periods are left in their order of appearance
PivotIndex_AppearanceOrder(rows) ==
    FirstSeen([k \in 1..Len(WithReturn(rows)) |->
                  WithReturn(rows)[k].trade_date], {})

\* the index of the pivot table after sort_index(): the periods, ascending
PivotIndex(rows) ==
    SortedDays({WithReturn(rows)[k].trade_date :
                   k \in 1..Len(WithReturn(rows))})

\* mutant of PivotColumns: the groups are left in their order of appearance
PivotColumns_AppearanceOrder(rows) ==
    FirstSeen([k \in 1..Len(WithReturn(rows)) |->
                  WithReturn(rows)[k].group_name], {})

\* the columns of the pivot table: the group names, ascending
PivotColumns(rows) ==
    SortedNames({WithReturn(rows)[k].group_name :
                    k \in 1..Len(WithReturn(rows))})

\* the elements of a sequence
Range(s) == {s[k] : k \in 1..Len(s)}

\* calculate_monthly_returns(data, groups): the pivot table with its index,
\* its columns and its cells
calculate_monthly_returns(rows, groups) ==
    LET index == PivotIndex(IsIn(rows, groups))
        columns == PivotColumns(IsIn(rows, groups))
    IN [index |-> index,
        columns |-> columns,
        values |->
            [i \in 1..Len(index) |->
                [g \in Range(columns) |->
                    CellMean(CellReturns(IsIn(rows, groups), index[i], g))]]]

\* ------------------------------------------------------------ the script
VARIABLES
    pc,              \* position of the script run
    bound,           \* which `def` the metric function names are bound to
    monthly_returns, \* result['monthly_returns'], the aggregated matrix
    rolling_window,  \* window_size passed as rolling_window
    rolling_annual,  \* result['rolling_annual']
    rolling_vol,     \* result['rolling_vol']
    rolling_sharpe,  \* result['rolling_sharpe']
    hist,            \* hist_*_min and hist_*_max of each group
    raised,          \* the cells whose try block raised an exception
    error_log,       \* number of logger.error calls of the except clause
    result_keys,     \* keys of the returned `result` dict
    sub_scores,      \* annual_score, vol_score, sharpe_score of each cell
    scores,          \* `scores` when the scoring loop ends, before fillna
    total_scores,    \* result['total_scores']
    data,            \* the frame passed to filter_data_by_time
    start_date,      \* its start_date argument
    end_date,        \* its end_date argument
    filtered_data,   \* the frame filter_data_by_time returns
    caller_data,     \* the caller's frame after filter_data_by_time returned
    group_data,      \* the observations passed to calculate_monthly_returns
    selected_groups, \* its groups argument
    periods,         \* the index of the matrix it returns
    columns,         \* the columns of the matrix it returns
    metric_key,      \* the metric argument of a single-metric request
    window_size,     \* its rolling_window argument
    result_data,     \* what the request returns
    group_files,     \* the file group_<id>_data.csv of each group
    loaded_data,     \* what load_group_data returned
    checked_groups,  \* the group checkboxes ticked in the sidebar
    page_outcome,    \* what the handler of the analysis button did
    aggregated,      \* what calculate_monthly_returns returns to the scorer
    none_keys,       \* the keys of `result` whose value is None
    stock_data,      \* the dict given to group_stocks_by_market_cap
    cap_groups,      \* the `groups` dict it returns
    stock_codes,     \* the list given to fetch_stock_data
    batch_size,      \* its batch_size argument
    fetch_outcome,   \* what fetching each list entry does
    batch_start,     \* i, the loop variable of the batch loop
    fetched,         \* the list positions the inner loop has processed
    all_stock_data,  \* the keys of the dict being returned
    fetch_result,    \* main.py: what the fetch stage would hand back
    grouped_result,  \* main.py: what the processing stage would hand back
    viz_raises,      \* main.py: whether the visualisation stage would raise
    stages,          \* main.py: the stages started, in order
    escaped,         \* main.py: the exception that ended the script
    viz_files,       \* visualization.py: the group files in the data folder
    failing_charts,  \* the charts whose create_* function returns False
    charts_attempted, \* how many create_* calls the pipeline made
    pipeline_result  \* what run_visualization_pipeline returned

results == <<monthly_returns, rolling_window, rolling_annual, rolling_vol,
             rolling_sharpe, hist, raised, error_log, result_keys,
             sub_scores, scores, total_scores>>

filter_vars == <<data, start_date, end_date, filtered_data, caller_data>>

aggregate_vars == <<group_data, selected_groups, periods, columns>>

metric_vars == <<metric_key, window_size, result_data>>

load_vars == <<group_files, loaded_data, checked_groups, page_outcome>>

all_metrics_vars == <<aggregated, none_keys>>

grouping_vars == <<stock_data, cap_groups>>

fetch_vars == <<stock_codes, batch_size, fetch_outcome, batch_start,
                fetched, all_stock_data>>

main_vars == <<fetch_result, grouped_result, viz_raises, stages, escaped>>

viz_vars == <<viz_files, failing_charts, charts_attempted, pipeline_result>>

pipeline_vars == <<load_vars, all_metrics_vars, grouping_vars, fetch_vars,
                   main_vars, viz_vars>>

vars == <<pc, bound, results, filter_vars, aggregate_vars, metric_vars,
          pipeline_vars>>

\* period returns a cell of the aggregated matrix may hold: -100%, -99.5%, 0%
ReturnValues == {Num(-Scale), Num(-((995 * Scale) \div 1000)), Num(0)}
CellValues == ReturnValues \cup {NaN}

\* pivot_table output for the requested groups: a row exists only for a
\* period in which some requested group has an observation, a column only
\* for a group that has one
Matrices(groups, n) ==
    {m \in [1..n -> [Names(groups) -> CellValues]] :
        /\ \A i \in 1..n : \E g \in Names(groups) : ~IsNaN(m[i][g])
        /\ \A g \in Names(groups) : \E i \in 1..n : ~IsNaN(m[i][g])}

\* no call of filter_data_by_time is under way
FilterIdle ==
    /\ data = NoneFrame
    /\ start_date = NoneDate
    /\ end_date = NoneDate
    /\ filtered_data = NoneFrame
    /\ caller_data = NoneFrame

\* no call of calculate_monthly_returns on its own is under way
AggregateIdle ==
    /\ group_data = <<>>
    /\ selected_groups = <<>>
    /\ periods = <<>>
    /\ columns = <<>>

\* no single-metric request is under way
MetricIdle ==
    /\ metric_key = "none"
    /\ window_size = 0
    /\ result_data = NoneResult

\* load_group_data has not been called
LoadIdle ==
    /\ group_files = <<>>
    /\ loaded_data = NoData(FALSE, FALSE)
    /\ checked_groups = {}
    /\ page_outcome = "none"

\* no call of calculate_time_series_metrics(metric=None) on its own is
\* under way
AllMetricsIdle ==
    /\ aggregated = NoneResult
    /\ none_keys = {}

\* group_stocks_by_market_cap has not been called
GroupingIdle ==
    /\ stock_data = <<>>
    /\ cap_groups = <<>>

\* fetch_stock_data has not been called
FetchIdle ==
    /\ stock_codes = <<>>
    /\ batch_size = 0
    /\ fetch_outcome = <<>>
    /\ batch_start = 0
    /\ fetched = <<>>
    /\ all_stock_data = {}

\* main.py has not been started
MainIdle ==
    /\ fetch_result = "none"
    /\ grouped_result = <<>>
    /\ viz_raises = FALSE
    /\ stages = <<>>
    /\ escaped = "none"

\* run_visualization_pipeline has not been called
VizIdle ==
    /\ viz_files = <<>>
    /\ failing_charts = {}
    /\ charts_attempted = 0
    /\ pipeline_result = [success |-> FALSE, group_stats |-> FALSE]

\* no step of the data pipeline is under way
PipelineIdle ==
    /\ LoadIdle
    /\ AllMetricsIdle
    /\ GroupingIdle
    /\ FetchIdle
    /\ MainIdle
    /\ VizIdle

\* the scorer's variables before a run
ScorerIdle ==
    /\ monthly_returns = <<>>
    /\ rolling_window = 0
    /\ rolling_annual = <<>>
    /\ rolling_vol = <<>>
    /\ rolling_sharpe = <<>>
    /\ hist = <<>>
    /\ raised = {}
    /\ error_log = 0
    /\ result_keys = {}
    /\ sub_scores = <<>>
    /\ scores = <<>>
    /\ total_scores = <<>>

Init ==
    /\ FilterIdle
    /\ AggregateIdle
    /\ MetricIdle
    /\ pc = "top"
    /\ bound = "none"
    /\ PipelineIdle
    /\ monthly_returns = <<>>
    /\ rolling_window = 0
    /\ rolling_annual = <<>>
    /\ rolling_vol = <<>>
    /\ rolling_sharpe = <<>>
    /\ hist = <<>>
    /\ raised = {}
    /\ error_log = 0
    /\ result_keys = {}
    /\ sub_scores = <<>>
    /\ scores = <<>>
    /\ total_scores = <<>>

\* lines 258-554: the first group of def statements
DefineFirst ==
    /\ pc = "top"
    /\ pc' = "sidebar"
    /\ bound' = "first"
    /\ UNCHANGED <<results, filter_vars, aggregate_vars, metric_vars,
                   pipeline_vars>>

\* lines 754-980: the second group of def statements rebinds the names
DefineSecond ==
    /\ pc = "sidebar"
    /\ pc' = "main"
    /\ bound' = "second"
    /\ UNCHANGED <<results, filter_vars, aggregate_vars, metric_vars,
                   pipeline_vars>>

\* the sets of cells whose try block raises in one run: none, or one of the
\* cells that enter it when an exception is let in
RaisingSets(tried, may_raise) ==
    IF may_raise THEN {{}} \cup {{c} : c \in tried} ELSE {{}}

\* line 1198: calculate_time_series_metrics(filtered_data, selected_groups,
\* metric=None, rolling_window=window_size), lines 895-973.  The function
\* takes any window size; the sidebar slider passes 3..36 of them.
ScoringRun(may_raise) ==
    /\ pc = "main"
    /\ \E groups \in Selections, W \in 1..MaxWindow :
         \E n \in 1..(MaxCells \div Len(groups)) :
         \E mr \in Matrices(groups, n) :
            /\ monthly_returns' = mr
            /\ rolling_window' = W
            /\ rolling_annual' = calculate_rolling_annual_return(bound, mr, W)
            /\ rolling_vol' = calculate_rolling_volatility(bound, mr, W)
            /\ rolling_sharpe' = calculate_rolling_sharpe(bound, mr, W)
    /\ hist' = Hist(rolling_annual', rolling_vol', rolling_sharpe')
    /\ raised' \in RaisingSets(TriedCells(rolling_annual', rolling_vol',
                                           rolling_sharpe'), may_raise)
    /\ error_log' = Cardinality(raised')
    /\ sub_scores' = SubScores(rolling_annual', rolling_vol',
                               rolling_sharpe', hist', raised')
    /\ scores' = ScoresLoop(sub_scores')
    /\ total_scores' = FillNa0(scores')
    /\ result_keys' = ResultKeys
    /\ pc' = "done"
    /\ UNCHANGED <<bound, filter_vars, aggregate_vars, metric_vars,
                   pipeline_vars>>

\* The arithmetic of the try block is float64 arithmetic on values read
\* from float columns and raises nothing: in a run of the script no cell
\* takes the except clause.
CalculateTimeSeriesMetrics == ScoringRun(FALSE)

\* Streamlit reruns the script from the top on the next interaction
Rerun ==
    /\ pc = "done"
    /\ pc' = "top"
    /\ bound' = "none"
    /\ monthly_returns' = <<>>
    /\ rolling_window' = 0
    /\ rolling_annual' = <<>>
    /\ rolling_vol' = <<>>
    /\ rolling_sharpe' = <<>>
    /\ hist' = <<>>
    /\ raised' = {}
    /\ error_log' = 0
    /\ result_keys' = {}
    /\ sub_scores' = <<>>
    /\ scores' = <<>>
    /\ total_scores' = <<>>
    /\ UNCHANGED <<filter_vars, aggregate_vars, metric_vars,
                   pipeline_vars>>

Next ==
    \/ DefineFirst
    \/ DefineSecond
    \/ CalculateTimeSeriesMetrics
    \/ Rerun

Spec == Init /\ [][Next]_vars

\* ------------------------------------- the scorer when a try block raises
\* the same run with an exception let into the try block of one cell
CalculateTimeSeriesMetricsRaising == ScoringRun(TRUE)

NextRaising ==
    \/ DefineFirst
    \/ DefineSecond
    \/ CalculateTimeSeriesMetricsRaising
    \/ Rerun

SpecRaising == Init /\ [][NextRaising]_vars

\* ------------------------------------- filter_data_by_time on its inputs
MaxRows == 3

\* 2024-02-28, the first day of the dates the inputs use
Day0 == DaysFromCivil(2024, 2, 28)

\* cells of an int64 column: 20240230 names no day
IntCells == {IntCell(20240228), IntCell(20240229), IntCell(20240230),
             IntCell(20240301)}

\* cells of an object column: 2023-02-29 names no day
TextCells == {TextCell(2024, 2, 28), TextCell(2024, 2, 29),
              TextCell(2023, 2, 29), TextCell(2024, 3, 1)}

\* cells of a datetime64 column, at midnight or at noon
TimestampCells ==
    {Timestamp(Day0, 0), Timestamp(Day0 + 1, 0), Timestamp(Day0 + 1, 1),
     Timestamp(Day0 + 2, 0), Timestamp(Day0 + 2, 1)}

\* the rows of a frame of n observations whose trade_date cells are in C
RowsOver(C, n) ==
    {[k \in 1..n |-> [id |-> k, trade_date |-> col[k]]] :
        col \in [1..n -> C]}

\* the frames passed as `data`: None, a frame without a trade_date column,
\* and frames of up to MaxRows observations of each dtype
Frames ==
    {NoneFrame}
    \cup {Frame("missing", r) : r \in RowsOver({NaT}, 1)}
    \cup UNION {{Frame("int64", r) : r \in RowsOver(IntCells, n)}
                   : n \in 0..MaxRows}
    \cup UNION {{Frame("object", r) : r \in RowsOver(TextCells, n)}
                   : n \in 1..MaxRows}
    \cup UNION {{Frame("datetime64", r) : r \in RowsOver(TimestampCells, n)}
                   : n \in 1..MaxRows}

\* the values passed as start_date and end_date
DateArgs ==
    {NoneDate, BadDateArg, DateArg(Day0), DateArg(Day0 + 1),
     DateArg(Day0 + 2), DateArg(Day0 + 3), TimestampArg(Day0 + 1, 1)}

InitFilter ==
    /\ pc = "filter"
    /\ bound = "second"
    /\ PipelineIdle
    /\ ScorerIdle
    /\ AggregateIdle
    /\ MetricIdle
    /\ data \in Frames
    /\ start_date \in DateArgs
    /\ end_date \in DateArgs
    /\ filtered_data = NoneFrame
    /\ caller_data = data

\* line 1055: filtered_data = filter_data_by_time(data, start_date, end_date)
FilterDataByTime ==
    /\ pc = "filter"
    /\ filtered_data' = filter_data_by_time(data, start_date, end_date)
    /\ caller_data' = data_after_filter(data, start_date, end_date)
    /\ pc' = "filtered"
    /\ UNCHANGED <<bound, results, data, start_date, end_date,
                   aggregate_vars, metric_vars,
                   pipeline_vars>>

NextFilter == FilterDataByTime

SpecFilter == InitFilter /\ [][NextFilter]_vars

\* ------------------------------- calculate_monthly_returns on its inputs
MaxObservations == 3

\* the trade dates of the observations
TradeDates == {Day0, Day0 + 1}

\* the observations: a date, a group and a return of 0%, -100% or none
Observations ==
    [trade_date : TradeDates, group_name : Range(GroupNameOrder),
     monthly_return : {Num(0), Num(-Scale), NaN}]

\* the groups argument: one or two names, in either order
GroupLists == Selections \cup {<<"B", "A">>}

\* The frames passed as `data` hold a return for a requested group: at the
\* call site they come from load_group_data and the date filter.
InitAggregate ==
    /\ pc = "aggregate"
    /\ bound = "second"
    /\ PipelineIdle
    /\ ScorerIdle
    /\ FilterIdle
    /\ MetricIdle
    /\ selected_groups \in GroupLists
    /\ group_data \in UNION {[1..n -> Observations] : n \in 1..MaxObservations}
    /\ WithReturn(IsIn(group_data, selected_groups)) # <<>>
    /\ periods = <<>>
    /\ columns = <<>>

\* line 897: monthly_returns = calculate_monthly_returns(data, groups)
CalculateMonthlyReturns ==
    /\ pc = "aggregate"
    /\ monthly_returns' =
           calculate_monthly_returns(group_data, selected_groups).values
    /\ periods' = calculate_monthly_returns(group_data, selected_groups).index
    /\ columns' =
           calculate_monthly_returns(group_data, selected_groups).columns
    /\ pc' = "aggregated"
    /\ UNCHANGED <<bound, rolling_window, rolling_annual, rolling_vol,
                   rolling_sharpe, hist, raised, error_log, result_keys,
                   sub_scores, scores, total_scores, filter_vars,
                   group_data, selected_groups, metric_vars,
                   pipeline_vars>>

NextAggregate == CalculateMonthlyReturns

SpecAggregate == InitAggregate /\ [][NextAggregate]_vars

\* ------------------------ calculate_time_series_metrics with a metric given
\* the metric argument: the four kinds of the dispatch and one it does not
\* know
MetricKinds ==
    {"monthly_return", "annual_return", "volatility", "sharpe", "drawdown"}

\* the kinds computed over a rolling window
RollingKinds == {"annual_return", "volatility", "sharpe"}

\* the rolling_window argument: negative, zero and positive
WindowSizes == (-1)..MaxWindow

InitMetric ==
    /\ pc = "metric"
    /\ bound = "second"
    /\ PipelineIdle
    /\ FilterIdle
    /\ AggregateIdle
    /\ \E groups \in Selections :
         \E n \in 1..((MaxCells \div Len(groups)) \div 2) :
            monthly_returns \in Matrices(groups, n)
    /\ rolling_window = 0
    /\ rolling_annual = <<>>
    /\ rolling_vol = <<>>
    /\ rolling_sharpe = <<>>
    /\ hist = <<>>
    /\ raised = {}
    /\ error_log = 0
    /\ result_keys = {}
    /\ sub_scores = <<>>
    /\ scores = <<>>
    /\ total_scores = <<>>
    /\ metric_key \in MetricKinds
    /\ window_size \in WindowSizes
    /\ result_data = NoneResult

\* lines 1097-1099: result_data = calculate_time_series_metrics(
\* filtered_data, selected_groups, metric_key, window_size), lines 882-892
CalculateSingleMetric ==
    /\ pc = "metric"
    /\ result_data' =
           single_metric(bound, metric_key, monthly_returns, window_size)
    /\ pc' = "metric_done"
    /\ UNCHANGED <<bound, results, filter_vars, aggregate_vars, metric_key,
                   window_size, pipeline_vars>>

NextMetric == CalculateSingleMetric

SpecMetric == InitMetric /\ [][NextMetric]_vars

\* ------------------ calculate_time_series_metrics(metric=None) on its inputs
\* what calculate_monthly_returns hands the scorer: None when its try block
\* raised (the frame has no group_name or monthly_return column), else the
\* aggregated matrix
AggregatedInputs ==
    {NoneResult}
    \cup UNION {UNION {{FrameResult(m) : m \in Matrices(groups, n)}
                         : n \in 1..((MaxCells \div Len(groups)) \div 2)}
                   : groups \in Selections}

InitAllMetrics ==
    /\ pc = "all_metrics"
    /\ bound = "second"
    /\ FilterIdle
    /\ AggregateIdle
    /\ MetricIdle
    /\ LoadIdle
    /\ GroupingIdle
    /\ FetchIdle
    /\ MainIdle
    /\ VizIdle
    /\ aggregated \in AggregatedInputs
    /\ rolling_window \in WindowSizes
    /\ none_keys = {}
    /\ monthly_returns = <<>>
    /\ rolling_annual = <<>>
    /\ rolling_vol = <<>>
    /\ rolling_sharpe = <<>>
    /\ hist = <<>>
    /\ raised = {}
    /\ error_log = 0
    /\ result_keys = {}
    /\ sub_scores = <<>>
    /\ scores = <<>>
    /\ total_scores = <<>>

\* lines 895-973 for any data and any rolling_window: each matrix variable
\* holds the frame of its key, <<>> when the value is None
CalculateAllMetrics ==
    /\ pc = "all_metrics"
    /\ LET mr == aggregated
           W == rolling_window
           ra == RollingOrNone(mr, calculate_rolling_annual_return(
                                       bound, mr.frame, W), W)
           rv == RollingOrNone(mr, calculate_rolling_volatility(
                                       bound, mr.frame, W), W)
           rs == RollingOrNone(mr, calculate_rolling_sharpe(
                                       bound, mr.frame, W), W)
           total == TotalScores(mr, ra, rv, rs)
       IN /\ monthly_returns' = mr.frame
          /\ rolling_annual' = ra.frame
          /\ rolling_vol' = rv.frame
          /\ rolling_sharpe' = rs.frame
          /\ total_scores' = total.frame
          /\ none_keys' = NoneKeys(mr, ra, rv, rs, total)
    /\ hist' = IF "total_scores" \in none_keys' THEN <<>>
               ELSE Hist(rolling_annual', rolling_vol', rolling_sharpe')
    /\ sub_scores' = IF "total_scores" \in none_keys' THEN <<>>
                     ELSE SubScores(rolling_annual', rolling_vol',
                                    rolling_sharpe', hist', {})
    /\ scores' = IF "total_scores" \in none_keys' THEN <<>>
                 ELSE ScoresLoop(sub_scores')
    /\ result_keys' = ResultKeys
    /\ pc' = "all_metrics_done"
    /\ UNCHANGED <<bound, rolling_window, raised, error_log, filter_vars,
                   aggregate_vars, metric_vars, load_vars, aggregated,
                   grouping_vars, fetch_vars,
                   main_vars, viz_vars>>

NextAllMetrics == CalculateAllMetrics

SpecAllMetrics == InitAllMetrics /\ [][NextAllMetrics]_vars

\* ------------------------------- group_stocks_by_market_cap on its inputs
MaxStocks == 7

\* the market caps a stock's frame can end with
MarketCaps == {1, 2, 3}

\* a stock's entry: an empty frame, or a frame whose last market_cap is m
StockEntries ==
    {[empty |-> TRUE, market_cap |-> 0]}
    \cup {[empty |-> FALSE, market_cap |-> m] : m \in MarketCaps}

InitGrouping ==
    /\ pc = "grouping"
    /\ bound = "second"
    /\ ScorerIdle
    /\ FilterIdle
    /\ AggregateIdle
    /\ MetricIdle
    /\ LoadIdle
    /\ AllMetricsIdle
    /\ FetchIdle
    /\ MainIdle
    /\ VizIdle
    /\ \E n \in 0..MaxStocks :
          \E e \in [1..n -> StockEntries] :
             stock_data = [k \in 1..n |->
                              [code |-> k, empty |-> e[k].empty,
                               market_cap |-> e[k].market_cap]]
    /\ cap_groups = <<>>

\* data_fetch.py line 444: groups, group_stats =
\* group_stocks_by_market_cap(all_stock_data)
GroupStocksByMarketCap ==
    /\ pc = "grouping"
    /\ cap_groups' = group_stocks_by_market_cap(stock_data)
    /\ pc' = "grouped"
    /\ UNCHANGED <<bound, results, filter_vars, aggregate_vars, metric_vars,
                   load_vars, all_metrics_vars, stock_data, fetch_vars,
                   main_vars, viz_vars>>

NextGrouping == GroupStocksByMarketCap

SpecGrouping == InitGrouping /\ [][NextGrouping]_vars

\* ----------------------------------------- fetch_stock_data on its inputs
MaxStockCodes == 4
MaxBatchSize == 3

\* group files the visualisation looks for in the data folder
MaxVizFiles == 5

\* the stock codes a list can hold; a list may name a code twice
StockCodes == {"600000.SH", "000001.SZ"}

\* what fetching one entry does: a frame with rows, an empty frame, or an
\* exception
FetchOutcomes == {"data", "empty", "raises"}

InitFetch ==
    /\ pc = "fetch"
    /\ bound = "second"
    /\ ScorerIdle
    /\ FilterIdle
    /\ AggregateIdle
    /\ MetricIdle
    /\ LoadIdle
    /\ AllMetricsIdle
    /\ GroupingIdle
    /\ MainIdle
    /\ VizIdle
    /\ \E n \in 0..MaxStockCodes :
          /\ stock_codes \in [1..n -> StockCodes]
          /\ fetch_outcome \in [1..n -> FetchOutcomes]
    /\ batch_size \in 1..MaxBatchSize
    /\ batch_start = 0
    /\ fetched = <<>>
    /\ all_stock_data = {}

\* lines 201-261: one pass of the batch loop, the inner loop included
FetchBatch ==
    /\ pc = "fetch"
    /\ batch_start < Len(stock_codes)
    /\ fetched' = fetched \o BatchPositions(batch_start, batch_size,
                                             Len(stock_codes))
    /\ all_stock_data' =
           all_stock_data
           \cup StoredCodes(stock_codes, fetch_outcome,
                            BatchPositions(batch_start, batch_size,
                                           Len(stock_codes)))
    /\ batch_start' = batch_start + batch_size
    /\ UNCHANGED <<pc, bound, results, filter_vars, aggregate_vars,
                   metric_vars, load_vars, all_metrics_vars, grouping_vars,
                   stock_codes, batch_size, fetch_outcome, main_vars, viz_vars>>

\* lines 263-264: the range is exhausted and all_stock_data is returned
FetchReturn ==
    /\ pc = "fetch"
    /\ batch_start >= Len(stock_codes)
    /\ pc' = "fetched"
    /\ UNCHANGED <<bound, results, filter_vars, aggregate_vars, metric_vars,
                   pipeline_vars>>

NextFetch == FetchBatch \/ FetchReturn

SpecFetch == InitFetch /\ [][NextFetch]_vars

\* ------------------------------------------------------ main.py as a script
\* what the fetch stage hands back: None, an empty table or a table
FetchResults == {"none", "empty", "data"}

\* what the processing stage hands back for each of the five groups: no
\* entry, an empty frame or a frame with rows
GroupedResults == [1..5 -> {"absent", "empty", "data"}]

InitMain ==
    /\ pc = "main_start"
    /\ bound = "none"
    /\ ScorerIdle
    /\ FilterIdle
    /\ AggregateIdle
    /\ MetricIdle
    /\ LoadIdle
    /\ AllMetricsIdle
    /\ GroupingIdle
    /\ FetchIdle
    /\ VizIdle
    /\ fetch_result \in FetchResults
    /\ grouped_result \in GroupedResults
    /\ viz_raises \in BOOLEAN
    /\ stages = <<>>
    /\ escaped = "none"

\* python main.py: the import statements of lines 10-13 run first, and
\* main() of line 108 only when they succeed
RunMain ==
    /\ pc = "main_start"
    /\ stages' = IF ImportRaises THEN <<>>
                 ELSE main_stages(fetch_result, grouped_result, viz_raises)
    /\ escaped' = IF ImportRaises THEN "ImportError" ELSE "none"
    /\ pc' = "main_exit"
    /\ UNCHANGED <<bound, results, filter_vars, aggregate_vars, metric_vars,
                   load_vars, all_metrics_vars, grouping_vars, fetch_vars,
                   fetch_result, grouped_result, viz_raises, viz_vars>>

NextMain == RunMain

SpecMain == InitMain /\ [][NextMain]_vars

\* ------------------------------- run_visualization_pipeline on its inputs
\* the group_<n>_data.csv files of the data folder: not there, read but
\* without the required columns or unreadable, or loaded
VizFileStates == {"absent", "unusable", "ok"}

\* the create_* calls that return False: none, or one of the ten
FailingCharts == {{}} \cup {{k} : k \in 1..10}

InitViz ==
    /\ pc = "viz"
    /\ bound = "none"
    /\ ScorerIdle
    /\ FilterIdle
    /\ AggregateIdle
    /\ MetricIdle
    /\ LoadIdle
    /\ AllMetricsIdle
    /\ GroupingIdle
    /\ FetchIdle
    /\ MainIdle
    /\ viz_files \in [1..MaxVizFiles -> VizFileStates]
    /\ failing_charts \in FailingCharts
    /\ charts_attempted = 0
    /\ pipeline_result = [success |-> FALSE, group_stats |-> FALSE]

\* visualization.py line 712: success, group_stats =
\* run_visualization_pipeline()
RunVisualizationPipeline ==
    /\ pc = "viz"
    /\ charts_attempted' = run_visualization_pipeline(viz_files).attempted
    /\ pipeline_result' =
           [success |-> run_visualization_pipeline(viz_files).success,
            group_stats |->
                run_visualization_pipeline(viz_files).group_stats]
    /\ pc' = "viz_done"
    /\ UNCHANGED <<bound, results, filter_vars, aggregate_vars, metric_vars,
                   load_vars, all_metrics_vars, grouping_vars, fetch_vars,
                   main_vars, viz_files, failing_charts>>

NextViz == RunVisualizationPipeline

SpecViz == InitViz /\ [][NextViz]_vars

\* ---------------------------------- load_group_data and the analysis button
MaxGroupId == 2
MaxFileRows == 1

\* range(1, 6) of line 74, cut at MaxGroupId
GroupIds == 1..MaxGroupId

\* trade_date cells of an int64 column: 20240230 names no day, 20260101 is
\* after max_allowed_date
LoadIntCells == {IntCell(20240228), IntCell(20240230), IntCell(20260101)}

\* trade_date cells of an object column: the last allowed day and the day
\* after it
LoadTextCells == {TextCell(2025, 12, 31), TextCell(2026, 1, 1)}

\* the monthly_return a table with that column holds
FileReturn == Num(Scale \div 100)

\* the rows of a table of n observations whose trade_date cells are in C
FileRowsOver(C, n) ==
    {[k \in 1..n |-> [trade_date |-> col[k], monthly_return |-> FileReturn]] :
        col \in [1..n -> C]}

\* the states group_<id>_data.csv can be in
GroupFiles ==
    {MissingFile, UnreadableFile}
    \cup UNION {{TableFile(h, "missing", r) : r \in FileRowsOver({NaT}, n)}
                   : n \in 0..MaxFileRows, h \in BOOLEAN}
    \cup UNION {{TableFile(h, "int64", r) : r \in FileRowsOver(LoadIntCells, n)}
                   : n \in 1..MaxFileRows, h \in BOOLEAN}
    \cup UNION {{TableFile(h, "object", r) :
                      r \in FileRowsOver(LoadTextCells, n)}
                   : n \in 1..MaxFileRows, h \in BOOLEAN}

InitLoad ==
    /\ pc = "load"
    /\ bound = "second"
    /\ ScorerIdle
    /\ FilterIdle
    /\ AggregateIdle
    /\ MetricIdle
    /\ AllMetricsIdle
    /\ GroupingIdle
    /\ FetchIdle
    /\ MainIdle
    /\ VizIdle
    /\ group_files \in [GroupIds -> GroupFiles]
    /\ loaded_data = NoData(FALSE, FALSE)
    /\ checked_groups = {}
    /\ page_outcome = "none"

\* lines 611 and 667: the sidebar calls load_group_data
LoadGroupData ==
    /\ pc = "load"
    /\ loaded_data' = load_group_data(group_files)
    /\ pc' = "loaded"
    /\ UNCHANGED <<bound, results, filter_vars, aggregate_vars, metric_vars,
                   group_files, checked_groups, page_outcome,
                   all_metrics_vars, grouping_vars, fetch_vars,
                   main_vars, viz_vars>>

\* lines 615-637: the checkboxes exist only when group_info was returned
Checkable == IF loaded_data.group_info THEN SUBSET GroupIds ELSE {{}}

\* mutant of HandlerOutcome: the handler does not test the loaded data
HandlerOutcome_NoDataTest(checked, loaded) ==
    IF checked = {} THEN "select_group_error" ELSE "analysis"

\* lines 1044-1052 and 1299-1300: the handler of the analysis button
HandlerOutcome(checked, loaded) ==
    IF checked = {} THEN "select_group_error"
    ELSE IF ~loaded.none /\ loaded.rows # <<>> THEN "analysis"
    ELSE "no_data_error"

\* the user ticks groups and presses the button; line 1050 loads the same
\* files again
StartAnalysis ==
    /\ pc = "loaded"
    /\ \E checked \in Checkable :
          /\ checked_groups' = checked
          /\ page_outcome' =
                 HandlerOutcome(checked, load_group_data(group_files))
    /\ pc' = "handled"
    /\ UNCHANGED <<bound, results, filter_vars, aggregate_vars, metric_vars,
                   group_files, loaded_data, all_metrics_vars,
                   grouping_vars, fetch_vars,
                   main_vars, viz_vars>>

NextLoad == LoadGroupData \/ StartAnalysis

SpecLoad == InitLoad /\ [][NextLoad]_vars

\* ---------------------------------------------------------------- claims
Done == pc = "done"
Rows == 1..Len(monthly_returns)
Groups == Cols(monthly_returns)

\* the non-absent period returns of group g in rows max(1, i-W+1)..i
ValidWindow(i, g) ==
    DropNa(TrailingWindow(monthly_returns, g, i, rolling_window))

\* C1: the rolling compounded return of a cell is defined whenever the
\* group has a value in the rows max(1, i-W+1)..i, whatever the window size:
\* it is never absent because fewer than W periods are available.
C1_RollingReturnDefinedFromFirstPeriod ==
    Done =>
        \A g \in Groups : \A i \in Rows :
            Len(ValidWindow(i, g)) >= 1 => ~IsNaN(rolling_annual[i][g])

\* C2: the rolling compounded return of a cell is the product of (1 + v)
\* over the non-absent period returns v of rows max(1, i-W+1)..i, minus 1.
C2_RollingReturnIsCompoundedProduct ==
    Done =>
        \A g \in Groups : \A i \in Rows :
            Len(ValidWindow(i, g)) >= 1
                => rolling_annual[i][g]
                       = Num(ProdOnePlus(ValidWindow(i, g)) - Scale)

\* C3: rolling volatility is absent when the trailing window holds fewer
\* than 2 valid values and is the sample standard deviation times sqrt(12)
\* as soon as it holds at least 2, even when fewer than W periods exist.
C3_VolatilityDefinedFromTwoValues ==
    Done =>
        \A g \in Groups : \A i \in Rows :
            /\ Len(ValidWindow(i, g)) < 2 => IsNaN(rolling_vol[i][g])
            /\ Len(ValidWindow(i, g)) >= 2
                   => rolling_vol[i][g] = StdSqrt12(ValidWindow(i, g))

\* C4: where rolling volatility is exactly zero the rolling Sharpe value is
\* absent, and no Sharpe cell is +infinity or -infinity.
C4_ZeroVolatilityGivesAbsentSharpe ==
    Done =>
        \A g \in Groups : \A i \in Rows :
            /\ rolling_vol[i][g] = Num(0) => IsNaN(rolling_sharpe[i][g])
            /\ ~IsInf(rolling_sharpe[i][g])

\* C5: every composite score lies in the closed range [0, 100].
C5_ScoreWithinBounds ==
    Done =>
        \A g \in Groups : \A i \in Rows :
            /\ IsNum(total_scores[i][g])
            /\ 0 <= total_scores[i][g].v
            /\ total_scores[i][g].v <= 100 * Scale

\* C5 witness: a cell has been scored and its score is the upper bound 100,
\* while another scored cell lies strictly inside the range.
C5_Witness ==
    /\ Done
    /\ \E g \in Groups : \E i \in Rows :
           sub_scores[i][g].scored /\ total_scores[i][g] = Num(100 * Scale)
    /\ \E g \in Groups : \E i \in Rows :
           /\ sub_scores[i][g].scored
           /\ total_scores[i][g].v > 0
           /\ total_scores[i][g].v < 100 * Scale

\* a cell for which one of the three rolling statistics is absent
AnyInputAbsent(i, g) ==
    \/ IsNaN(rolling_annual[i][g])
    \/ IsNaN(rolling_vol[i][g])
    \/ IsNaN(rolling_sharpe[i][g])

ColumnValues(m, g) == {m[i][g] : i \in 1..Len(m)} \ {NaN}

\* x is the least / the greatest finite value of column g of m
IsGroupMin(m, g, x) ==
    x \in ColumnValues(m, g) /\ \A y \in ColumnValues(m, g) : x.v <= y.v
IsGroupMax(m, g, x) ==
    x \in ColumnValues(m, g) /\ \A y \in ColumnValues(m, g) : x.v >= y.v

\* C7: the return sub-score of a scored cell is 100 * (value - group_min) /
\* (group_max - group_min) with the minimum and maximum of the same group's
\* rolling return over all periods; it is 0 when the two are equal, 0 at the
\* minimum and 100 at the maximum.
C7_ReturnSubScoreIsGroupMinMax ==
    Done =>
        \A g \in Groups : \A i \in Rows :
            sub_scores[i][g].scored =>
                \A lo, hi \in ColumnValues(rolling_annual, g) :
                    (IsGroupMin(rolling_annual, g, lo)
                        /\ IsGroupMax(rolling_annual, g, hi)) =>
                    LET x == rolling_annual[i][g].v
                        score == sub_scores[i][g].annual_score
                    IN /\ hi.v = lo.v => score = Num(0)
                       /\ hi.v > lo.v =>
                            score = Num((100 * (x - lo.v) * Scale)
                                            \div (hi.v - lo.v))
                       /\ x = lo.v => score = Num(0)
                       /\ (x = hi.v /\ hi.v > lo.v) => score = Num(100 * Scale)

\* C7 witness: a scored cell has return sub-score 100 although a later period
\* of the same group scores 0 and another group holds a larger rolling
\* return than this group's maximum.
C7_Witness ==
    /\ Done
    /\ \E g \in Groups : \E i, j \in Rows :
           /\ i < j
           /\ sub_scores[i][g].scored
           /\ sub_scores[j][g].scored
           /\ sub_scores[i][g].annual_score = Num(100 * Scale)
           /\ sub_scores[j][g].annual_score = Num(0)
           /\ \E h \in Groups \ {g} : \E y \in ColumnValues(rolling_annual, h) :
                  y.v > rolling_annual[i][g].v

\* C8: the volatility sub-score of a scored cell is 100 * (1 - (value -
\* group_min) / (group_max - group_min)) over the group's own volatility
\* history, multiplied by 0.7 exactly when the raw volatility is strictly
\* greater than group_min + 0.75 * (group_max - group_min).
C8_VolSubScoreInvertedWithPenalty ==
    Done =>
        \A g \in Groups : \A i \in Rows :
            sub_scores[i][g].scored =>
                \A lo, hi \in ColumnValues(rolling_vol, g) :
                    (IsGroupMin(rolling_vol, g, lo)
                        /\ IsGroupMax(rolling_vol, g, hi)
                        /\ hi.v > lo.v) =>
                    LET x == rolling_vol[i][g].v
                        score == sub_scores[i][g].vol_score
                        base == 100 * (Scale - ((x - lo.v) * Scale)
                                                   \div (hi.v - lo.v))
                        over == x > lo.v + (75 * (hi.v - lo.v)) \div 100
                    IN /\ over => score = Num((7 * base) \div 10)
                       /\ ~over => score = Num(base)

\* the volatility of cell (i, g) lies strictly above the penalty threshold
\* of its group and strictly below the group's maximum
InTopQuartileBelowMax(i, g) ==
    \E lo, hi \in ColumnValues(rolling_vol, g) :
        /\ IsGroupMin(rolling_vol, g, lo)
        /\ IsGroupMax(rolling_vol, g, hi)
        /\ rolling_vol[i][g].v > lo.v + (75 * (hi.v - lo.v)) \div 100
        /\ rolling_vol[i][g].v < hi.v

\* C8 witness: one scored cell is penalised with a non-zero sub-score and
\* another scored cell of the same group is not penalised.
C8_Witness ==
    /\ Done
    /\ \E g \in Groups : \E i, j \in Rows :
           /\ sub_scores[i][g].scored
           /\ sub_scores[j][g].scored
           /\ InTopQuartileBelowMax(i, g)
           /\ sub_scores[i][g].vol_score.v > 0
           /\ sub_scores[j][g].vol_score = Num(100 * Scale)

\* x is the least / the greatest cell of column g of m in float64 order,
\* where the column may hold +inf or -inf
IsLeast(m, g, x) ==
    x \in ColumnValues(m, g) /\ \A y \in ColumnValues(m, g) : ~FLt(y, x)
IsGreatest(m, g, x) ==
    x \in ColumnValues(m, g) /\ \A y \in ColumnValues(m, g) : ~FGt(y, x)

\* the min-max normalisation of x over [lo, hi], halved when x is negative
PenalisedNormalisation(x, lo, hi) ==
    LET base == (100 * (x - lo) * Scale) \div (hi - lo)
    IN IF x < 0 THEN (5 * base) \div 10 ELSE base

\* C9: the Sharpe sub-score of a scored cell is a number: the min-max
\* normalisation of the raw Sharpe value over the group's history, times 0.5
\* exactly when the raw value is negative, and 0 at the group's minimum
\* (raw -0.5 in a history [-0.5, 1.5] gives 0).
C9_SharpeSubScoreNormalisedThenPenalised ==
    Done =>
        \A g \in Groups : \A i \in Rows :
            sub_scores[i][g].scored =>
                \A lo, hi \in ColumnValues(rolling_sharpe, g) :
                    (IsLeast(rolling_sharpe, g, lo)
                        /\ IsGreatest(rolling_sharpe, g, hi)) =>
                    LET x == rolling_sharpe[i][g]
                        score == sub_scores[i][g].sharpe_score
                    IN /\ IsNum(score)
                       /\ (x = lo) => score = Num(0)
                       /\ (IsNum(x) /\ IsNum(lo) /\ IsNum(hi) /\ hi.v > lo.v)
                            => score = Num(PenalisedNormalisation(
                                               x.v, lo.v, hi.v))

\* C10: the composite score of every scored cell equals 0.3 * return
\* sub-score + 0.2 * volatility sub-score + 0.5 * Sharpe sub-score.
C10_CompositeIsWeightedSum ==
    Done =>
        \A g \in Groups : \A i \in Rows :
            sub_scores[i][g].scored =>
                LET a == sub_scores[i][g].annual_score
                    v == sub_scores[i][g].vol_score
                    sh == sub_scores[i][g].sharpe_score
                IN /\ IsNum(a) /\ IsNum(v) /\ IsNum(sh)
                   /\ total_scores[i][g]
                        = Num((3 * a.v) \div 10 + (2 * v.v) \div 10
                                  + (5 * sh.v) \div 10)

\* the score cell (i, g) gets when no try block raises: the weighted sum of
\* its sub-scores, 0 where an input is absent or the sum is NaN
ScoreWithoutFailure(i, g) ==
    LET h == hist[g]
        sum == WeightedSum(
                   AnnualScore(rolling_annual[i][g], h.annual_min,
                               h.annual_max),
                   VolScore(rolling_vol[i][g], h.vol_min, h.vol_max),
                   SharpeScore(rolling_sharpe[i][g], h.sharpe_min,
                               h.sharpe_max))
    IN IF AnyInputAbsent(i, g) \/ IsNaN(sum) THEN Num(0) ELSE sum

\* C11: when the computation of one score cell raises, that cell is 0, every
\* other cell has the value it has without the failure, and the score matrix
\* is returned with every period and every group.
C11_FailedCellZeroOthersUnaffected ==
    Done =>
        /\ "total_scores" \in result_keys
        /\ Len(total_scores) = Len(rolling_annual)
        /\ \A i \in Rows :
               /\ DOMAIN total_scores[i] = Groups
               /\ \A g \in Groups :
                      IF <<i, g>> \in raised
                      THEN total_scores[i][g] = Num(0)
                      ELSE total_scores[i][g] = ScoreWithoutFailure(i, g)

\* C11 witness: one cell raised and is 0 although its sum would be positive,
\* and another cell of the same period keeps a positive score.
C11_Witness ==
    /\ Done
    /\ \E i \in Rows : \E g, h \in Groups :
           /\ g # h
           /\ <<i, g>> \in raised
           /\ total_scores[i][g] = Num(0)
           /\ ScoreWithoutFailure(i, g).v > 0
           /\ <<i, h>> \notin raised
           /\ total_scores[i][h].v > 0

\* C12: every exception suppressed while scoring a cell is counted in a
\* diagnostics summary returned with the score matrix: when a cell raised,
\* the returned dict holds an entry besides the five matrices.
C12_SuppressedExceptionsReported ==
    (Done /\ raised # {}) =>
        \E k \in result_keys :
            k \notin {"monthly_returns", "rolling_annual", "rolling_vol",
                      "rolling_sharpe", "total_scores"}

\* C13: for two scored cells of one group, whose rolling returns a <= b both
\* lie in the group's historical [min, max], the return sub-score of b is
\* not less than the return sub-score of a.
C13_ReturnSubScoreMonotone ==
    Done =>
        \A g \in Groups : \A i, j \in Rows :
            (/\ sub_scores[i][g].scored
             /\ sub_scores[j][g].scored
             /\ rolling_annual[i][g].v <= rolling_annual[j][g].v)
                => /\ IsNum(sub_scores[i][g].annual_score)
                   /\ IsNum(sub_scores[j][g].annual_score)
                   /\ sub_scores[i][g].annual_score.v
                          <= sub_scores[j][g].annual_score.v

\* C13 witness: three scored cells of one group with strictly increasing
\* rolling returns and strictly increasing return sub-scores.
C13_Witness ==
    /\ Done
    /\ \E g \in Groups : \E i, j, k \in Rows :
           /\ sub_scores[i][g].scored
           /\ sub_scores[j][g].scored
           /\ sub_scores[k][g].scored
           /\ rolling_annual[i][g].v < rolling_annual[j][g].v
           /\ rolling_annual[j][g].v < rolling_annual[k][g].v
           /\ sub_scores[i][g].annual_score.v < sub_scores[j][g].annual_score.v
           /\ sub_scores[j][g].annual_score.v < sub_scores[k][g].annual_score.v

\* ------------------------------------------------ claims on the filter
FilterDone == pc = "filtered"

\* both bounds are given and pd.to_datetime reads them
BoundsGiven ==
    /\ start_date.kind \in {"date", "ts"}
    /\ end_date.kind \in {"date", "ts"}

\* the input observations whose date, truncated to day, is in [start, end]
ObservationsInRange ==
    {k \in 1..Len(data.rows) :
        /\ data.dtype # "missing"
        /\ ToDatetime(data.rows[k].trade_date) # NaT
        /\ start_date.day <= ToDatetime(data.rows[k].trade_date).a
        /\ ToDatetime(data.rows[k].trade_date).a <= end_date.day}

\* the input positions of the rows of a frame, in the frame's order
RowIds(frame) == [k \in 1..Len(frame.rows) |-> frame.rows[k].id]

\* C14: with both bounds given and an observation in range, the filter
\* returns exactly the observations whose day d satisfies start <= d <= end,
\* each once and in input order.
C14_FilterReturnsExactlyInRange ==
    (FilterDone /\ ~data.none /\ BoundsGiven /\ ObservationsInRange # {}) =>
        /\ {filtered_data.rows[k].id : k \in 1..Len(filtered_data.rows)}
               = ObservationsInRange
        /\ \A j, k \in 1..Len(filtered_data.rows) :
               j < k => filtered_data.rows[j].id < filtered_data.rows[k].id

\* C14 witness: an observation at noon of the end day is kept, one on the
\* start day is kept and one after the end day is dropped.
C14_Witness ==
    /\ FilterDone
    /\ BoundsGiven
    /\ start_date.day < end_date.day
    /\ \E i, j, k \in 1..Len(data.rows) :
           /\ data.rows[i].trade_date = Timestamp(end_date.day, 1)
           /\ data.rows[j].trade_date.a = start_date.day
           /\ data.rows[k].trade_date.a > end_date.day
           /\ RowIds(filtered_data) = <<i, j>>

\* C15: filtering with a date range that holds none of the observations
\* returns every input row: no empty set and no reduced set.
C15_EmptyRangeReturnsAllRows ==
    (FilterDone /\ ~data.none /\ BoundsGiven /\ ObservationsInRange = {}) =>
        RowIds(filtered_data) = RowIds(data)

\* C16: when pd.to_datetime fails on the start or end bound the filter
\* returns the data as passed in: the same rows with the same column values.
C16_ParseFailureReturnsDataUnmodified ==
    (/\ FilterDone
     /\ ~data.none
     /\ start_date # NoneDate
     /\ end_date # NoneDate
     /\ (ToDatetimeRaises(start_date) \/ ToDatetimeRaises(end_date))) =>
        filtered_data = data

\* C21: filter_data_by_time leaves the frame it is given as it was: after
\* the call the caller's table has the same rows and the same cell values
\* as before it.
C21_FilterLeavesInputUnmodified ==
    FilterDone => caller_data = data

\* -------------------------------------------- claims on the aggregator
AggregateDone == pc = "aggregated"

\* the positions of the observations of period p and group g that carry a
\* return
CellObservations(p, g) ==
    {k \in 1..Len(group_data) :
        /\ group_data[k].trade_date = p
        /\ group_data[k].group_name = g
        /\ ~IsNaN(group_data[k].monthly_return)}

RECURSIVE SumOfReturns(_)
\* the sum of the returns of a set of observations
SumOfReturns(K) ==
    IF K = {} THEN 0
    ELSE LET k == CHOOSE x \in K : TRUE
         IN group_data[k].monthly_return.v + SumOfReturns(K \ {k})

\* cell (p, g) of the aggregated matrix holds the value x
CellHolds(p, g, x) ==
    \E i \in 1..Len(periods) :
        /\ periods[i] = p
        /\ g \in Range(columns)
        /\ monthly_returns[i][g] = x

\* cell (p, g) of the aggregated matrix is absent: no such row, no such
\* column, or NaN
CellAbsent(p, g) ==
    \A i \in 1..Len(periods) :
        (periods[i] = p /\ g \in Range(columns)) => IsNaN(monthly_returns[i][g])

\* no label occurs twice in a sequence of labels
NoDuplicates(labels) ==
    \A j, k \in 1..Len(labels) : j # k => labels[j] # labels[k]

\* C17: for every period and every requested group the aggregated value is
\* the arithmetic mean of the returns observed in that cell, a cell without
\* observed returns is absent and not zero, and a cell has one value at most.
C17_CellIsMeanOfObservations ==
    AggregateDone =>
        /\ NoDuplicates(periods)
        /\ NoDuplicates(columns)
        /\ \A p \in TradeDates : \A g \in Names(selected_groups) :
               IF CellObservations(p, g) = {}
               THEN CellAbsent(p, g)
               ELSE CellHolds(p, g,
                        Num(SumOfReturns(CellObservations(p, g))
                                \div Cardinality(CellObservations(p, g))))

\* C17 witness: one cell is the mean -50% of a 0% and a -100% observation,
\* another cell of the matrix is absent, and an observation of a group that
\* was not requested is left out.
C17_Witness ==
    /\ AggregateDone
    /\ \E p \in TradeDates : \E g \in Names(selected_groups) :
           /\ Cardinality(CellObservations(p, g)) = 2
           /\ CellHolds(p, g, Num(-(Scale \div 2)))
    /\ \E i \in 1..Len(periods) : \E g \in Range(columns) :
           IsNaN(monthly_returns[i][g])
    /\ Len(selected_groups) = 2

\* the observations put in the order a permutation f of the rows gives
Permuted(f) == [k \in 1..Len(group_data) |-> group_data[f[k]]]

\* the permutations of the rows of the input
RowPermutations ==
    {f \in [1..Len(group_data) -> 1..Len(group_data)] :
        \A j, k \in 1..Len(group_data) : j # k => f[j] # f[k]}

\* C18: for every permutation of the input rows calculate_monthly_returns
\* gives the same matrix: same cells, same row order, same column order.
C18_AggregationIgnoresRowOrder ==
    AggregateDone =>
        \A f \in RowPermutations :
            calculate_monthly_returns(Permuted(f), selected_groups)
                = [index |-> periods, columns |-> columns,
                   values |-> monthly_returns]

\* C18 witness: the input lists a later period before an earlier one and
\* group B before group A, and the matrix has two rows and two columns.
C18_Witness ==
    /\ AggregateDone
    /\ Len(periods) = 2
    /\ Len(columns) = 2
    /\ \E j, k \in 1..Len(group_data) :
           /\ j < k
           /\ group_data[j].trade_date > group_data[k].trade_date
           /\ ~IsNaN(group_data[j].monthly_return)
           /\ ~IsNaN(group_data[k].monthly_return)
    /\ group_data[1].group_name = "B"
    /\ ~IsNaN(group_data[1].monthly_return)

\* C19 as stated: the rows are in strictly ascending period order and the
\* columns are in the order in which the caller listed the group names.
C19_RowsAscendingColumnsInCallerOrder ==
    AggregateDone =>
        /\ \A j, k \in 1..Len(periods) : j < k => periods[j] < periods[k]
        /\ columns = SelectSeq(selected_groups,
                               LAMBDA g : g \in Range(columns))

\* C19 amended: the rows are in strictly ascending period order and the
\* columns are the requested groups that have a return, in ascending order
\* of their names, whatever order the caller listed them in.
C19_RowsAscendingColumnsByName ==
    AggregateDone =>
        /\ \A j, k \in 1..Len(periods) : j < k => periods[j] < periods[k]
        /\ \A j, k \in 1..Len(columns) :
               j < k => NameRank(columns[j]) < NameRank(columns[k])
        /\ Range(columns) =
               {g \in Names(selected_groups) :
                   \E p \in TradeDates : CellObservations(p, g) # {}}

\* C19 witness: the caller lists B before A, the input lists the later
\* period first, and the matrix has both periods and both groups.
C19_Witness ==
    /\ AggregateDone
    /\ selected_groups = <<"B", "A">>
    /\ columns = <<"A", "B">>
    /\ Len(periods) = 2
    /\ group_data[1].trade_date > group_data[Len(group_data)].trade_date

\* ------------------------------------- claims on single-metric requests
MetricDone == pc = "metric_done"

\* the request names a rolling kind with a window <= 0, or an unknown kind
InvalidRequest ==
    \/ metric_key \notin MetricKinds \ {"drawdown"}
    \/ (metric_key \in RollingKinds /\ window_size <= 0)

\* C20 as stated: a rolling-metric request with a window size <= 0 or an
\* unknown statistic kind raises an error to the caller; it returns neither
\* a result nor an empty value.
C20_InvalidRequestRaises ==
    (MetricDone /\ InvalidRequest) => result_data.kind = "raised"

\* C20 amended: a rolling-metric request with a window size <= 0 or an
\* unknown statistic kind raises nothing to the caller; with an unknown kind
\* or a negative window it returns None, and with a known kind and a
\* positive window it returns a matrix of the shape of the input.
C20_InvalidRequestReturnsNone ==
    MetricDone =>
        /\ result_data.kind \in {"None", "frame"}
        /\ (metric_key \notin MetricKinds \ {"drawdown"})
               => result_data = NoneResult
        /\ (metric_key \in RollingKinds /\ window_size < 0)
               => result_data = NoneResult
        /\ (metric_key \in MetricKinds \ {"drawdown"} /\ window_size >= 1)
               => /\ result_data.kind = "frame"
                  /\ Len(result_data.frame) = Len(monthly_returns)

\* C20 witness: a volatility request with window -1 returned None.
C20_Witness ==
    /\ MetricDone
    /\ metric_key = "volatility"
    /\ window_size = -1
    /\ Len(monthly_returns) >= 2
    /\ result_data = NoneResult

\* ------------------------------------------ claims on load_group_data
LoadDone == pc \in {"loaded", "handled"}

\* the rows of group g's table whose date pd.to_datetime reads and which is
\* not after 2025-12-31
ValidInRange(g) ==
    {k \in 1..Len(group_files[g].rows) :
        /\ group_files[g].dtype # "missing"
        /\ ToDatetime(group_files[g].rows[k].trade_date) # NaT
        /\ ToDatetime(group_files[g].rows[k].trade_date).a
               <= DaysFromCivil(2025, 12, 31)}

\* the loaded data holds row k of group g's table
Loaded(g, k) ==
    \E j \in 1..Len(loaded_data.rows) :
        /\ loaded_data.rows[j].group_id = g
        /\ loaded_data.rows[j].id = k

\* the loaded data holds row k of group g's table with return 0.0
LoadedWithZeroReturn(g, k) ==
    \E j \in 1..Len(loaded_data.rows) :
        /\ loaded_data.rows[j].group_id = g
        /\ loaded_data.rows[j].id = k
        /\ loaded_data.rows[j].monthly_return = Num(0)

\* group g's table was read and has no monthly_return column
LacksReturnField(g) ==
    group_files[g].status = "ok" /\ ~group_files[g].has_return

\* C22: when a group's table lacks the monthly_return column the load does
\* not fail and the group is not dropped: each of its observations with a
\* valid date up to 2025-12-31 is in the loaded data with return 0.0.
C22_MissingReturnFieldKeepsGroup ==
    LoadDone =>
        \A g \in GroupIds :
            LacksReturnField(g) =>
                \A k \in ValidInRange(g) : LoadedWithZeroReturn(g, k)

\* C23: the loaded data holds exactly the observations with a valid date
\* not after 2025-12-31: each of them is kept, every other one is dropped.
C23_LoadedExactlyValidInRange ==
    LoadDone =>
        \A g \in GroupIds :
            \A k \in 1..Len(group_files[g].rows) :
                Loaded(g, k) <=> k \in ValidInRange(g)

\* no file gives load_group_data a row: each is missing, unreadable, or a
\* table none of whose rows is kept
NoValidObservation ==
    \A g \in GroupIds :
        \/ group_files[g].status \in {"missing", "unreadable"}
        \/ ValidDates(group_files[g], ReadGroup(g, group_files[g])) = <<>>

\* C24: when no group yields a valid observation, load_group_data returns
\* data = None, and the handler of the analysis button ends with a message
\* to the user and computes no metric.
C24_NoDataIsReportedNotRaised ==
    NoValidObservation =>
        /\ LoadDone => loaded_data.none
        /\ pc = "handled" =>
               page_outcome \in {"select_group_error", "no_data_error"}

\* C24 witness: every file is a table whose rows are all dropped, a group is
\* ticked, and the handler reports that no data could be loaded.
C24_Witness ==
    /\ pc = "handled"
    /\ NoValidObservation
    /\ \A g \in GroupIds : group_files[g].status = "ok"
    /\ \E g \in GroupIds : Len(group_files[g].rows) > 0
    /\ checked_groups # {}
    /\ loaded_data.none
    /\ page_outcome = "no_data_error"

\* --------------------- claims on calculate_time_series_metrics(metric=None)
AllMetricsDone == pc = "all_metrics_done"

\* one of the four inputs of the composite score has the value None
AnyInputNone ==
    none_keys \cap {"monthly_returns", "rolling_annual", "rolling_vol",
                    "rolling_sharpe"} # {}

\* C25: the composite score is computed only when the aggregated returns,
\* the rolling return, the rolling volatility and the rolling Sharpe ratio
\* are all there; when any of them is None the result has total_scores =
\* None and no cell was scored.
C25_ScoreOnlyFromAllInputs ==
    AllMetricsDone =>
        /\ result_keys = ResultKeys
        /\ AnyInputNone <=> "total_scores" \in none_keys
        /\ AnyInputNone =>
               /\ total_scores = <<>>
               /\ scores = <<>>
               /\ sub_scores = <<>>
        /\ ~AnyInputNone =>
               /\ Len(total_scores) = Len(monthly_returns)
               /\ total_scores =
                      FillNa0(ScoresLoop(SubScores(
                          rolling_annual, rolling_vol, rolling_sharpe,
                          Hist(rolling_annual, rolling_vol, rolling_sharpe),
                          {})))

\* C25 witness: the aggregated returns are there, the rolling functions
\* returned None, and total_scores is None.
C25_Witness ==
    /\ AllMetricsDone
    /\ aggregated.kind = "frame"
    /\ Len(aggregated.frame) >= 2
    /\ none_keys = {"rolling_annual", "rolling_vol", "rolling_sharpe",
                    "total_scores"}

\* C26: for every aggregated matrix and window the first and the second
\* definition of each rolling function return the same value: the same
\* absent cells and the same numbers, or None both.
C26_DefinitionsEquivalent ==
    (MetricDone /\ metric_key \in RollingKinds) =>
        single_metric("first", metric_key, monthly_returns, window_size)
            = single_metric("second", metric_key, monthly_returns,
                            window_size)

\* ------------------------------- claims on group_stocks_by_market_cap
GroupingDone == pc = "grouped"

\* the codes of the stocks whose frame is not empty
StocksWithData ==
    {stock_data[k].code : k \in 1..Len(stock_data)} \
        {stock_data[k].code : k \in {j \in 1..Len(stock_data) :
                                        stock_data[j].empty}}

\* the places <<g, k>> of the `groups` dict that hold stock code c
PlacesOf(c) ==
    {p \in (1..5) \X (1..MaxStocks + 1) :
        /\ p[2] <= Len(cap_groups[p[1]])
        /\ cap_groups[p[1]][p[2]].code = c}

\* C27: the groups partition the stocks that have data, every stock of a
\* lower group has a market cap not greater than every stock of a higher
\* group, groups 1..4 hold floor(n/5) stocks each and group 5 the other
\* n - 4*floor(n/5).
C27_GroupsPartitionByMarketCap ==
    GroupingDone =>
        LET n == Cardinality(StocksWithData)
        IN /\ \A c \in StocksWithData : Cardinality(PlacesOf(c)) = 1
           /\ \A g \in 1..5 : \A k \in 1..Len(cap_groups[g]) :
                  /\ cap_groups[g][k].code \in StocksWithData
                  /\ \E j \in 1..Len(stock_data) :
                         /\ stock_data[j].code = cap_groups[g][k].code
                         /\ stock_data[j].market_cap
                                = cap_groups[g][k].market_cap
           /\ \A j, k \in 1..5 :
                  j < k =>
                     \A a \in 1..Len(cap_groups[j]), b \in 1..Len(cap_groups[k]) :
                        cap_groups[j][a].market_cap <= cap_groups[k][b].market_cap
           /\ \A g \in 1..4 : Len(cap_groups[g]) = n \div 5
           /\ Len(cap_groups[5]) = n - 4 * (n \div 5)
           /\ n < 5 => Len(cap_groups[5]) = n

\* C27 witness: six stocks with data given in descending order of market
\* cap and one stock without: groups 1..4 hold one stock each, group 5 two.
C27_Witness ==
    /\ GroupingDone
    /\ Len(stock_data) = 7
    /\ Cardinality(StocksWithData) = 6
    /\ \A k \in 1..6 :
           stock_data[k].market_cap >= stock_data[k + 1].market_cap
    /\ stock_data[1].market_cap = 3
    /\ \A g \in 1..4 : Len(cap_groups[g]) = 1
    /\ Len(cap_groups[5]) = 2
    /\ cap_groups[1][1].market_cap = 1
    /\ cap_groups[5][2].market_cap = 3

\* ------------------------------------------- claims on fetch_stock_data
FetchDone == pc = "fetched"

\* C28: for any batch_size >= 1 the inner loop processes each entry of the
\* list exactly once, in list order, whether or not an earlier fetch
\* raised, and the keys of the returned dict are exactly the codes of the
\* entries whose fetch gave a non-empty frame.
C28_EveryCodeFetchedOnce ==
    /\ \A j, k \in 1..Len(fetched) : j < k => fetched[j] < fetched[k]
    /\ FetchDone =>
           /\ fetched = [k \in 1..Len(stock_codes) |-> k]
           /\ all_stock_data =
                  {stock_codes[k] :
                      k \in {j \in 1..Len(stock_codes) :
                                fetch_outcome[j] = "data"}}

\* C28 witness: the first fetch raises, the list ends in the middle of the
\* last batch, and a later entry of another code is stored.
C28_Witness ==
    /\ FetchDone
    /\ Len(stock_codes) = 4
    /\ batch_size = 3
    /\ fetch_outcome[1] = "raises"
    /\ fetch_outcome[2] = "empty"
    /\ fetch_outcome[4] = "data"
    /\ stock_codes[1] # stock_codes[4]
    /\ all_stock_data = {stock_codes[4]}

\* ---------------------------------------------------- claims on main.py
MainExited == pc = "main_exit"

\* fetch gives data, processing gives a group with rows and the
\* visualisation does not raise
HealthyRun ==
    /\ fetch_result = "data"
    /\ \E g \in 1..5 : grouped_result[g] = "data"
    /\ ~viz_raises

\* C29: the stages start in the order fetch, process, visualise; process
\* starts only after fetch gave data, visualise only after processing gave
\* a group with rows; a healthy run starts all three; no exception ends
\* the run.
C29_StagesInOrderAndAllOnHealthyRun ==
    MainExited =>
        /\ escaped = "none"
        /\ \E n \in 0..3 :
               stages = SubSeq(<<"fetch", "process", "visualise">>, 1, n)
        /\ Len(stages) >= 2 => fetch_result = "data"
        /\ Len(stages) = 3 => \E g \in 1..5 : grouped_result[g] = "data"
        /\ HealthyRun => stages = <<"fetch", "process", "visualise">>

\* --------------------------------- claims on run_visualization_pipeline
VizDone == pc = "viz_done"

\* C30: when a group file loads, the pipeline makes all ten create_* calls
\* and returns (True, group_stats), whether or not a chart fails; it
\* returns (False, None) when no group file loads.
C30_LoadedDataGivesTenChartsAndTrue ==
    VizDone =>
        /\ GroupDataLoaded(viz_files) =>
               /\ charts_attempted = 10
               /\ pipeline_result = [success |-> TRUE, group_stats |-> TRUE]
        /\ ~GroupDataLoaded(viz_files) =>
               pipeline_result = [success |-> FALSE, group_stats |-> FALSE]

====
